---- MODULE Spec2Model ----
(***************************************************************************)
(* GraphIQ: the interaction controller of src/src/App.tsx (the App         *)
(* component that hit-tests in world space through the Camera), the shape  *)
(* store of src/src/utils/ShapeManager.ts, the hover-leave timer, the      *)
(* per-frame render callback with its pass-graph rebuild, and the          *)
(* background texture loader.                                              *)
(*                                                                         *)
(* Conventions.  Time is in milliseconds.  Coordinates are integers; the   *)
(* two places where the code multiplies by an irrational or fractional     *)
(* factor (the hover bubble's diagonal offset and eased size) are computed *)
(* in fixed point and truncated.  The camera zoom stays at its constructor *)
(* value 1 (onWheel and the 'f' key are not part of this model).           *)
(***************************************************************************)
EXTENDS Integers, Sequences, FiniteSets, TLC

\* ---------------------------------------------------------------- bounds
MaxPointerDowns == 1      \* pointer-down events per behaviour
MaxInputs == 3            \* pointer-down, key-down and resize events per behaviour
TickMs == 250             \* largest step by which the clock advances
MaxInFlight == 2          \* texture loads / deferred resets outstanding
MaxRebuilds == 2          \* renderer constructions and pass rebuilds after the first
MaxBatches == 3           \* largest batch count a pass list is built for
MaxStoreOps == 2          \* ShapeManager calls per behaviour
MaxBatchShapes == 3     \* most shapes added to the batched store
MaxCap == 2             \* largest maxPerBatch handed to the batching
MaxLayer == 2           \* largest zIndex of a shape under the peeled pixel
MaxRateChanges == 1     \* times the measured frame time changes from one frame to the next
MaxNodes == 2           \* most nodes handed to fitToView
MaxDist == 4            \* largest magnitude of a distance handed to smin
MaxK == 3               \* largest merge ratio handed to smin
MaxPresses == 2         \* pointer-down events of a pointer stream
MaxVisible == 22        \* most visible shapes in the store a frame draws

\* ------------------------------------------------------ program constants
HoverLeaveDelay == 500
HoverAnimationDuration == 500
HoverMaxSize == 50
HoverBaseSpacing == 20
ShapeWidth == 200
MaxShapesPerPass == 50
ViewportWidth == 800
ViewportHeight == 600
NPeels == 8
MaxZ == 1000
HistorySize == 60
TargetFPS == 60
BgShaderCapacity == 20
DataForShaderMax == 20
CapMin == 20
CapMax == 200
CapStep == 10

Null == "null"
HoverId == "hover_shape"
White == "white"

\* ------------------------------------------------------------- utilities
Abs(n) == IF n < 0 THEN -n ELSE n
Max2(a, b) == IF a >= b THEN a ELSE b
Min2(a, b) == IF a <= b THEN a ELSE b

\* ------------------------------------------------------------------ input
\* datasets/shapes.json as delivered by fetch: id, position, size.height,
\* zIndex, tint
Datasets ==
  { << [id |-> "a", x |-> -150, y |-> 0, h |-> 200, zIndex |-> 0, tint |-> "red"],
       [id |-> "b", x |-> 50, y |-> -150, h |-> 100, zIndex |-> 0, tint |-> "blue"] >> }

\* clientX / clientY of the pointer events
PointerPoints ==
  { [x |-> 250, y |-> 300],     \* over shape a of the datasets
    [x |-> 360, y |-> 410],     \* over shape b, and over a's hover bubble once it has grown
    [x |-> 470, y |-> 520] }    \* over no shape

Keys == {" ", "+", "-", "1", "2"}

\* ------------------------------------------------------------ shape store
\* The store is the Map<string, Shape> of ShapeManager in insertion order.
\* A shape record carries the fields the controller reads or writes.

\* Map.get
GetShape(st, id) ==
  IF \E i \in 1..Len(st) : st[i].id = id
  THEN st[CHOOSE i \in 1..Len(st) : st[i].id = id]
  ELSE Null

HasShape(st, id) == \E i \in 1..Len(st) : st[i].id = id

\* ShapeManager.addShape: Map.set keeps the position of an existing key
AddShape(st, shape) ==
  IF HasShape(st, shape.id)
  THEN [i \in 1..Len(st) |-> IF st[i].id = shape.id THEN shape ELSE st[i]]
  ELSE Append(st, shape)

\* ShapeManager.removeShape: Map.delete
RemoveShape(st, id) == SelectSeq(st, LAMBDA s : s.id # id)

\* removeShape also drops the selection when it names the removed shape
SelectedAfterRemove(sel, id) == IF sel = id THEN Null ELSE sel

\* ShapeManager.updateShape with a full hover-shape record (Object.assign);
\* a missing id leaves the store as it is
UpdateShape(st, id, shape) ==
  [i \in 1..Len(st) |-> IF st[i].id = id THEN shape ELSE st[i]]

\* ShapeManager.setShapePosition
SetShapePosition(st, id, px, py) ==
  [i \in 1..Len(st) |-> IF st[i].id = id THEN [st[i] EXCEPT !.x = px, !.y = py] ELSE st[i]]

\* ShapeManager.setShapeZIndex
SetShapeZIndex(st, id, z) ==
  [i \in 1..Len(st) |-> IF st[i].id = id THEN [st[i] EXCEPT !.zIndex = z] ELSE st[i]]

\* one definition as the controller hands it to the store: width from the
\* shapeWidth control, visible and draggable defaulting to true
ShapeOfDef(def) ==
  [id |-> def.id, x |-> def.x, y |-> def.y, w |-> ShapeWidth, h |-> def.h,
   visible |-> TRUE, draggable |-> TRUE, zIndex |-> def.zIndex]

\* new ShapeManager(initialShapes): addShape for each entry in order
RECURSIVE NewShapeManager(_)
NewShapeManager(defs) ==
  IF Len(defs) = 0 THEN << >>
  ELSE AddShape(NewShapeManager(SubSeq(defs, 1, Len(defs) - 1)),
                ShapeOfDef(defs[Len(defs)]))

\* setShapeDefinitions: the tints the store knows, by shape id
TintsOfDefs(defs) == {[id |-> defs[i].id, tint |-> defs[i].tint] : i \in 1..Len(defs)}

TintOf(tints, id) ==
  IF \E t \in tints : t.id = id THEN (CHOOSE t \in tints : t.id = id).tint ELSE White

\* ----------------------------------------------------------------- camera
\* Camera.screenToWorld at zoom 1: the inverse of the orthographic
\* view-projection, screen y growing downwards
ScreenToWorld(cam, sx, sy) ==
  [x |-> cam.x + sx - (ViewportWidth \div 2),
   y |-> cam.y + (ViewportHeight \div 2) - sy]

\* -------------------------------------------------------------- hit test
Contains(s, p) == 2 * Abs(p.x - s.x) <= s.w /\ 2 * Abs(p.y - s.y) <= s.h

\* getShapeAtPosition(worldPoint): shapes sorted ascending by zIndex (the
\* sort is stable), scanned from the end; invisible shapes are skipped
GetShapeAtPosition(st, p) ==
  LET cand == {i \in 1..Len(st) : st[i].visible /\ Contains(st[i], p)}
      top(i) == \A j \in cand : st[j].zIndex < st[i].zIndex
                               \/ (st[j].zIndex = st[i].zIndex /\ j <= i)
  IN IF cand = {} THEN Null ELSE st[CHOOSE i \in cand : top(i)].id

\* ----------------------------------------------------------- hover bubble
\* createHoverShape(originalShape, animationProgress) with
\* a createHoverShape that puts the bubble on layer 0 whatever its parent's zIndex
CreateHoverShape_BaseLayer(orig, elapsed) ==
  LET halfW == orig.w \div 2
      halfH == orig.h \div 2
      spacing == HoverBaseSpacing + (Max2(halfW, halfH) \div 10)
      off == (spacing * 7071 * elapsed) \div (10000 * HoverAnimationDuration)
      rest == ((HoverAnimationDuration - elapsed) * 100) \div HoverAnimationDuration
      size == (HoverMaxSize * (1000000 - rest * rest * rest)) \div 1000000
  IN [id |-> HoverId,
      x |-> orig.x + halfW + off,
      y |-> orig.y - halfH - off,
      w |-> size, h |-> size,
      visible |-> (elapsed * 20 > HoverAnimationDuration),
      draggable |-> FALSE,
      zIndex |-> 0]

\* animationProgress = elapsed / HoverAnimationDuration.  The unit diagonal
\* (1,-1)/sqrt(2) is taken as 7071/10000 and 1 - progress, in the ease-out
\* cubic, in hundredths.
CreateHoverShape(orig, elapsed) ==
  LET halfW == orig.w \div 2
      halfH == orig.h \div 2
      spacing == HoverBaseSpacing + (Max2(halfW, halfH) \div 10)
      off == (spacing * 7071 * elapsed) \div (10000 * HoverAnimationDuration)
      rest == ((HoverAnimationDuration - elapsed) * 100) \div HoverAnimationDuration
      size == (HoverMaxSize * (1000000 - rest * rest * rest)) \div 1000000
  IN [id |-> HoverId,
      x |-> orig.x + halfW + off,
      y |-> orig.y - halfH - off,
      w |-> size, h |-> size,
      visible |-> (elapsed * 20 > HoverAnimationDuration),
      draggable |-> FALSE,
      zIndex |-> orig.zIndex]

\* ---------------------------------------------------------------- batches
\* getBatchedShapeData(maxPerBatch).batches.length: visible shapes grouped
\* by (zIndex, tint), each group split into chunks of at most maxPerBatch
BatchKeys(st, tints) ==
  {<<st[i].zIndex, TintOf(tints, st[i].id)>> : i \in {j \in 1..Len(st) : st[j].visible}}

GroupSize(st, tints, key) ==
  Cardinality({i \in 1..Len(st) : st[i].visible /\ st[i].zIndex = key[1]
                                  /\ TintOf(tints, st[i].id) = key[2]})

RECURSIVE SumChunks(_, _, _)
SumChunks(st, tints, keys) ==
  IF keys = {} THEN 0
  ELSE LET k == CHOOSE k \in keys : TRUE
       IN ((GroupSize(st, tints, k) + MaxShapesPerPass - 1) \div MaxShapesPerPass)
          + SumChunks(st, tints, keys \ {k})

BatchCount(st, tints) == SumChunks(st, tints, BatchKeys(st, tints))

\* ------------------------------------------------------------- pass graph
\* A pass config is [name, index, inputs, toScreen]: name and index make
\* the config's name string, inputs is the config's inputs map as a set of
\* [uniform, from] entries, toScreen is a truthy outputToScreen.
PassName(p) ==
  IF p.name \in {"alphaBatch", "peel"} THEN p.name \o "_" \o ToString(p.index) ELSE p.name

BgPassConfig == [name |-> "bgPass", index |-> 0, inputs |-> {}, toScreen |-> FALSE]

PassthroughConfig ==
  [name |-> "passthroughPass", index |-> 0,
   inputs |-> {[uniform |-> "u_prevPassTexture", from |-> "bgPass"]},
   toScreen |-> TRUE]

\* alphaBatch_<i> of a list of n batches
AlphaBatchConfig(i, n) ==
  [name |-> "alphaBatch", index |-> i,
   inputs |-> {[uniform |-> "u_bg", from |-> "bgPass"],
               [uniform |-> "u_previousLayer",
                from |-> IF i = 0 THEN "bgPass" ELSE "alphaBatch_" \o ToString(i - 1)]},
   toScreen |-> (i = n - 1)]

\* a pass list whose every batch pass writes to the screen
BuildPasses_AllToScreen(n) ==
  IF n = 0
  THEN << BgPassConfig, PassthroughConfig >>
  ELSE [i \in 1..(n + 1) |->
          IF i = 1 THEN BgPassConfig ELSE AlphaBatchConfig(i - 2, i - 1)]

\* the pass list built for n batches: bgPass, alphaBatch_0..n-1 chained
\* through u_previousLayer, or bgPass and passthroughPass when n = 0
BuildPasses(n) ==
  IF n = 0
  THEN << BgPassConfig, PassthroughConfig >>
  ELSE [i \in 1..(n + 1) |->
          IF i = 1 THEN BgPassConfig ELSE AlphaBatchConfig(i - 2, n)]

\* number of batches a pass list was built for
BuiltFor(passes) == Cardinality({i \in 1..Len(passes) : passes[i].name = "alphaBatch"})

\* ------------------------------------------------------------------ state
VARIABLES
  shapeDefinitions,     \* stateRef.shapeDefinitions
  shapes,               \* shapeManager.state.shapes
  selectedShapeId,      \* shapeManager.state.selectedShapeId
  shapeTints,           \* what setShapeDefinitions gave the current store
  camera,               \* camera.position
  draggingShapeId, dragStartPos, draggingGroupShapes,
  isPanning, lastPointerPos,
  hoveredShapeId,       \* the parent under the pointer
  hoverShapeId,         \* id of the bubble
  hoverAnimationStart,  \* ms since the animation started, -1 for null
  hoverLeaveTimer,      \* timer handle, 0 for null
  timers,               \* the browser's pending timeouts: [id, remaining]
  lastBatchCount,       \* << >> for null, else <<n>>: the last rebuild's count, or -1
  passes,               \* the renderer's pass list
  bgTextureUrl, bgTextureType,
  bgTexture,            \* "null", "empty", or the url the texture was loaded from
  bgTextureRatio,       \* "1", or the url whose image gave the ratio
  bgTextureReady,
  lastStateBg,          \* lastState.bgTextureUrl / bgTextureType of the effect
  loads,                \* loadTextureFromURL promises in flight: [url, raf]
  rafResets,            \* pending requestAnimationFrame reset callbacks
  textureLeaked,        \* a texture was created, never deleted and is no longer held
  loaded,               \* the dataset fetch has resolved
  downs, inputs,        \* events counted against the bounds
  leftElapsed,          \* ms since the pointer left parent and bubble with the bubble
                        \* in the store; -1 once it is over a shape again or the bubble is gone
  armElapsed,           \* ms since the pending linger timer was armed, -1 if none is pending
  ev,                   \* what the last step did, when a property speaks of it; "" otherwise
  \* a MultiPassRenderer object and the GPU resources of its passes
  passesArray,          \* MultiPassRenderer.passesArray: [config, inst]
  passMap,              \* MultiPassRenderer.passes: name -> pass, as [key, inst] entries
  gpuLive,              \* resources created and not deleted: [inst, kind]
  gpuDoubleFreed,       \* resources handed to a delete call after their deletion
  nextInst,             \* number of the next RenderPass object
  boundInputs,          \* what the last render bound for the declared inputs
  rebuilds,             \* renderer constructions and rebuilds counted against the bound
  \* a ShapeManager object driven through its methods
  smShapes,             \* state.shapes: the Map in insertion order, [key, shape] entries
  smSelected,           \* state.selectedShapeId
  smDragging,           \* state.draggingShapeId
  smNextId,             \* nextId
  smResult,             \* what the last call returned
  smQuery,              \* <<mousePos, dpr>> of the last call if it was a hit test, else << >>
  smOps,                \* calls counted against the bound
  smCall,               \* "removeShape" or "updateShape" if that was the last call, else ""
  \* a shape store and the result of its batching
  batchStore,           \* the store's shapes in insertion order
  batchTints,           \* the tint of each shape: [id, tint]
  batches,              \* what the last getBatchedShapeData call returned
  batchCap,             \* the maxPerBatch of that call, 0 when the store changed since
  \* one pixel of the depth-peeling passes of a frame
  peelFragments,        \* the shapes whose SDF is negative at the pixel: [zIndex, visible]
  peelIndex,            \* number of peel passes drawn in this frame
  peeled,               \* per peel drawn: the zIndex it selected, -1 if it discarded
  \* the performance monitoring at the end of the render callback
  performanceMode,      \* stateRef.performanceMode
  frameTimeHistory,     \* stateRef.frameTimeHistory, in ms
  adaptiveQuality,      \* stateRef.adaptiveQuality
  rateChanges,          \* frame-time changes counted against the bound
  \* a Camera and the last fitToView call on it
  fitViewport,          \* viewportWidth, viewportHeight
  fitNodes,             \* the nodes of the call, << >> before any
  fitPadding,           \* the padding of the call
  fitCenter2,           \* position after the call, doubled
  fitZoom,              \* zoom as the quotient [num, den]
  \* the last evaluation of the shaders' smin
  sminA, sminB, sminK,  \* its arguments
  sminResult,           \* its value: the quotient [num, den], or nan
  \* the shape uniforms of a frame of the batched-alpha path
  uniVisible,           \* number of visible shapes in the store
  uniCap,               \* controls.maxShapesPerPass
  uniBg,                \* passUniforms.bgPass: [count, length]
  uniBatches            \* passUniforms.alphaBatch_i: [count, length]

storeVars == <<shapeDefinitions, shapes, selectedShapeId, shapeTints>>
dragVars == <<draggingShapeId, dragStartPos, draggingGroupShapes, isPanning, lastPointerPos>>
hoverVars == <<hoveredShapeId, hoverShapeId, hoverAnimationStart, hoverLeaveTimer, timers>>
renderVars == <<lastBatchCount, passes>>
bgVars == <<bgTextureUrl, bgTextureType, bgTexture, bgTextureRatio, bgTextureReady,
           lastStateBg, loads, rafResets, textureLeaked>>
histVars == <<leftElapsed, armElapsed>>
appVars == <<storeVars, camera, dragVars, hoverVars, renderVars, bgVars,
             loaded, downs, inputs, histVars, ev>>
rendererVars == <<passesArray, passMap, gpuLive, gpuDoubleFreed, nextInst,
                  boundInputs, rebuilds>>
managerVars == <<smShapes, smSelected, smDragging, smNextId, smResult, smQuery, smOps,
                 smCall>>
batchVars == <<batchStore, batchTints, batches, batchCap>>
peelVars == <<peelFragments, peelIndex, peeled>>
qualityVars == <<performanceMode, frameTimeHistory, adaptiveQuality, rateChanges>>
fitVars == <<fitViewport, fitNodes, fitPadding, fitCenter2, fitZoom>>
sminVars == <<sminA, sminB, sminK, sminResult>>
uniVars == <<uniVisible, uniCap, uniBg, uniBatches>>
laterVars == <<fitVars, sminVars, uniVars>>
labVars == <<rendererVars, managerVars, batchVars, peelVars, qualityVars, laterVars>>
notRendererVars == <<managerVars, batchVars, peelVars, qualityVars, laterVars>>
notManagerVars == <<rendererVars, batchVars, peelVars, qualityVars, laterVars>>
notBatchVars == <<rendererVars, managerVars, peelVars, qualityVars, laterVars>>
notPeelVars == <<rendererVars, managerVars, batchVars, qualityVars, laterVars>>
notQualityVars == <<rendererVars, managerVars, batchVars, peelVars, laterVars>>
notFitVars == <<rendererVars, managerVars, batchVars, peelVars, qualityVars, sminVars, uniVars>>
notSminVars == <<rendererVars, managerVars, batchVars, peelVars, qualityVars, fitVars, uniVars>>
notUniVars == <<rendererVars, managerVars, batchVars, peelVars, qualityVars, fitVars, sminVars>>
vars == <<appVars, labVars>>

\* the component after mount: empty definitions, the renderer built from the
\* empty store, the camera at the origin
AppInit ==
  /\ shapeDefinitions = << >>
  /\ shapes = << >>
  /\ selectedShapeId = Null
  /\ shapeTints = {}
  /\ camera = [x |-> 0, y |-> 0]
  /\ draggingShapeId = Null
  /\ dragStartPos = [x |-> 0, y |-> 0]
  /\ draggingGroupShapes = {}
  /\ isPanning = FALSE
  /\ lastPointerPos = << >>
  /\ hoveredShapeId = Null
  /\ hoverShapeId = Null
  /\ hoverAnimationStart = -1
  /\ hoverLeaveTimer = 0
  /\ timers = {}
  /\ lastBatchCount = << >>
  /\ passes = BuildPasses(0)
  /\ bgTextureUrl = Null
  /\ bgTextureType = Null
  /\ bgTexture = Null
  /\ bgTextureRatio = "1"
  /\ bgTextureReady = FALSE
  /\ lastStateBg = [url |-> Null, type |-> Null]
  /\ loads = {}
  /\ rafResets = {}
  /\ textureLeaked = FALSE
  /\ loaded = FALSE
  /\ downs = 0
  /\ inputs = 0
  /\ leftElapsed = -1
  /\ armElapsed = -1
  /\ ev = ""

\* no MultiPassRenderer object has been constructed
RendererIdle ==
  /\ passesArray = << >>
  /\ passMap = {}
  /\ gpuLive = {}
  /\ gpuDoubleFreed = {}
  /\ nextInst = 1
  /\ boundInputs = {}
  /\ rebuilds = 0

\* a new ShapeManager()
ManagerInit ==
  /\ smShapes = << >>
  /\ smSelected = Null
  /\ smDragging = Null
  /\ smNextId = 1
  /\ smResult = ""
  /\ smQuery = << >>
  /\ smOps = 0
  /\ smCall = ""

\* an empty store, nothing batched yet
BatchIdle ==
  /\ batchStore = << >>
  /\ batchTints = {}
  /\ batches = << >>
  /\ batchCap = 0

\* no shape under the pixel, no peel drawn
PeelIdle ==
  /\ peelFragments = {}
  /\ peelIndex = 0
  /\ peeled = << >>

\* adaptiveQuality as initialised, thresholds and strength in hundredths
InitialQuality ==
  [enableSelectiveAlpha |-> TRUE, tintAlphaThreshold |-> 95,
   effectComplexityThreshold |-> 40, ditherStrength |-> 30, ditherType |-> 2]

\* the monitoring before the first frame
QualityIdle ==
  /\ performanceMode = "auto"
  /\ frameTimeHistory = << >>
  /\ adaptiveQuality = InitialQuality
  /\ rateChanges = 0

\* a new Camera(800, 600): centre at the origin, zoom 1
FitIdle ==
  /\ fitViewport = [w |-> ViewportWidth, h |-> ViewportHeight]
  /\ fitNodes = << >>
  /\ fitPadding = 0
  /\ fitCenter2 = [x |-> 0, y |-> 0]
  /\ fitZoom = [num |-> 1, den |-> 1]

\* smin(0, 0, 1) = -1/4
SminIdle ==
  /\ sminA = 0 /\ sminB = 0 /\ sminK = 1
  /\ sminResult = [num |-> -1, den |-> 4, nan |-> FALSE]

\* an empty store drawn at the default cap
UniIdle ==
  /\ uniVisible = 0
  /\ uniCap = MaxShapesPerPass
  /\ uniBg = [count |-> 0, length |-> DataForShaderMax]
  /\ uniBatches = << >>

LaterIdle == FitIdle /\ SminIdle /\ UniIdle

LabIdle == RendererIdle /\ ManagerInit /\ BatchIdle /\ PeelIdle /\ QualityIdle /\ LaterIdle

Init == AppInit /\ LabIdle

\* ----------------------------------------------------------------- timers
TimerIds(ts) == {t.id : t \in ts}
\* a clearTimeout that leaves the timer pending
ClearTimeout_Keeps(ts, id) == ts
ClearTimeout(ts, id) == {t \in ts : t.id # id}
\* setTimeout returns a handle no pending timer carries
FreshTimerId(ts) == CHOOSE i \in 1..(Cardinality(ts) + 1) : i \notin TimerIds(ts)
\* a setTimeout whose callback is due at once, the delay argument dropped
SetTimeout_NoDelay(ts, delay) == ts \cup {[id |-> FreshTimerId(ts), remaining |-> 0]}
SetTimeout(ts, delay) == ts \cup {[id |-> FreshTimerId(ts), remaining |-> delay]}

\* -------------------------------------------------------------- dataset
\* the load effect: fetch resolves once with the dataset
Load(data) ==
  /\ ~loaded
  /\ loaded' = TRUE
  /\ shapeDefinitions' = data
  /\ shapes' = NewShapeManager(data)
  /\ selectedShapeId' = Null
  /\ shapeTints' = TintsOfDefs(data)
  /\ lastBatchCount' = <<-1>>
  /\ ev' = ""
  /\ UNCHANGED <<labVars, camera, dragVars, hoverVars, passes, bgVars,
                 downs, inputs, histVars>>

\* --------------------------------------------------------- pointer events
\* onPointerMove, dragging branch: every snapshot entry goes to its
\* snapshot position plus the world-space delta
RECURSIVE MoveGroup(_, _, _, _)
MoveGroup(st, group, dx, dy) ==
  IF group = {} THEN st
  ELSE LET g == CHOOSE g \in group : TRUE
       IN MoveGroup(SetShapePosition(st, g.id, g.x + dx, g.y + dy), group \ {g}, dx, dy)

DragDelta(cam, start, p) ==
  LET a == ScreenToWorld(cam, start.x, start.y)
      b == ScreenToWorld(cam, p.x, p.y)
  IN [x |-> b.x - a.x, y |-> b.y - a.y]

\* PAN_SENSITIVITY = 0.7
PanScaled(d) == (d * 7) \div 10

\* a linger callback that removes the bubble but keeps the parent recorded
HoverLeaveCallback_KeepsParent ==
  /\ hoveredShapeId' = hoveredShapeId
  /\ hoverAnimationStart' = -1
  /\ IF hoverShapeId # Null
     THEN /\ shapes' = RemoveShape(shapes, hoverShapeId)
          /\ selectedShapeId' = SelectedAfterRemove(selectedShapeId, hoverShapeId)
          /\ hoverShapeId' = Null
     ELSE UNCHANGED <<shapes, selectedShapeId, hoverShapeId>>
  /\ hoverLeaveTimer' = 0

\* the linger-timer callback armed by onPointerMove
HoverLeaveCallback ==
  /\ hoveredShapeId' = Null
  /\ hoverAnimationStart' = -1
  /\ IF hoverShapeId # Null
     THEN /\ shapes' = RemoveShape(shapes, hoverShapeId)
          /\ selectedShapeId' = SelectedAfterRemove(selectedShapeId, hoverShapeId)
          /\ hoverShapeId' = Null
     ELSE UNCHANGED <<shapes, selectedShapeId, hoverShapeId>>
  /\ hoverLeaveTimer' = 0

\* what the hit test finds under a pointer event at p
PointerHit(p) == GetShapeAtPosition(shapes, ScreenToWorld(camera, p.x, p.y))

\* onPointerMove, hover branch
HoverDetect(p) ==
  LET hit == PointerHit(p)
      parent == hoveredShapeId
      child == hoverShapeId
      reentry == hit # Null /\ hoverLeaveTimer # 0
      timers1 == IF reentry THEN ClearTimeout(timers, hoverLeaveTimer) ELSE timers
      handle1 == IF reentry THEN 0 ELSE hoverLeaveTimer
  IN
  IF hit # Null /\ hit = child
  THEN \* over the bubble: keep it
       /\ timers' = timers1 /\ hoverLeaveTimer' = handle1
       /\ leftElapsed' = -1
       /\ armElapsed' = IF reentry THEN -1 ELSE armElapsed
       /\ ev' = "kept"
       /\ UNCHANGED <<shapes, selectedShapeId, hoveredShapeId, hoverShapeId, hoverAnimationStart>>
  ELSE IF hit # Null /\ hit # HoverId /\ hit # parent
  THEN \* a new hover has started on a parent shape
       LET st1 == IF child # Null THEN RemoveShape(shapes, child) ELSE shapes
           sel1 == IF child # Null THEN SelectedAfterRemove(selectedShapeId, child)
                   ELSE selectedShapeId
       IN /\ hoveredShapeId' = hit
          /\ hoverAnimationStart' = 0
          /\ shapes' = AddShape(st1, CreateHoverShape(GetShape(st1, hit), 0))
          /\ selectedShapeId' = sel1
          /\ hoverShapeId' = HoverId
          /\ timers' = timers1 /\ hoverLeaveTimer' = handle1
          /\ leftElapsed' = -1
          /\ armElapsed' = IF reentry THEN -1 ELSE armElapsed
          /\ ev' = (IF parent = Null THEN "" ELSE "switch")
  ELSE IF hit = Null /\ parent # Null
  THEN \* left parent and child: (re)start the linger timer
       LET ts == IF hoverLeaveTimer # 0 THEN ClearTimeout(timers, hoverLeaveTimer) ELSE timers
       IN /\ hoverLeaveTimer' = FreshTimerId(ts)
          /\ timers' = SetTimeout(ts, HoverLeaveDelay)
          /\ leftElapsed' = IF leftElapsed = -1 /\ HasShape(shapes, HoverId) THEN 0 ELSE leftElapsed
          /\ armElapsed' = 0
          /\ ev' = ""
          /\ UNCHANGED <<shapes, selectedShapeId, hoveredShapeId, hoverShapeId, hoverAnimationStart>>
  ELSE /\ timers' = timers1 /\ hoverLeaveTimer' = handle1
       /\ leftElapsed' = IF hit # Null THEN -1 ELSE leftElapsed
       /\ armElapsed' = IF reentry THEN -1 ELSE armElapsed
       /\ ev' = ""
       /\ UNCHANGED <<shapes, selectedShapeId, hoveredShapeId, hoverShapeId, hoverAnimationStart>>

OnPointerMove(p) ==
  /\ IF draggingShapeId # Null
     THEN LET d == DragDelta(camera, dragStartPos, p)
          IN /\ shapes' = MoveGroup(shapes, draggingGroupShapes, d.x, d.y)
             /\ ev' = ""
             /\ UNCHANGED <<selectedShapeId, camera, lastPointerPos, hoverVars>>
     ELSE IF isPanning
     THEN IF lastPointerPos = << >>
          THEN /\ ev' = ""
               /\ UNCHANGED <<shapes, selectedShapeId, camera, lastPointerPos, hoverVars>>
          ELSE LET dx == p.x - lastPointerPos[1].x
                   dy == p.y - lastPointerPos[1].y
               IN /\ camera' = [x |-> camera.x - PanScaled(dx), y |-> camera.y - PanScaled(-dy)]
                  /\ lastPointerPos' = <<p>>
                  /\ ev' = ""
                  /\ UNCHANGED <<shapes, selectedShapeId, hoverVars>>
     ELSE /\ HoverDetect(p)
          /\ UNCHANGED <<camera, lastPointerPos>>
  \* the observers: no hit test runs while dragging or panning
  /\ IF draggingShapeId # Null \/ isPanning
     THEN /\ leftElapsed' = IF PointerHit(p) # Null THEN -1 ELSE leftElapsed
          /\ UNCHANGED armElapsed
     ELSE TRUE
  /\ UNCHANGED <<labVars, shapeDefinitions, shapeTints, draggingShapeId, dragStartPos,
                 draggingGroupShapes, isPanning, renderVars, bgVars, loaded, downs, inputs>>

\* a snapshot that forgets the zIndex filter and takes every shape of the store
GroupSnapshot_WholeStore(st, z) ==
  {[id |-> st[i].id, x |-> st[i].x, y |-> st[i].y] : i \in 1..Len(st)}

\* the snapshot onPointerDown takes: every shape sharing the zIndex
GroupSnapshot(st, z) ==
  {[id |-> st[i].id, x |-> st[i].x, y |-> st[i].y] : i \in {j \in 1..Len(st) : st[j].zIndex = z}}

\* an onPointerDown without the branch that answers a press on the bubble
OnPointerDown_NoBubbleBranch(p) ==
  LET clicked == PointerHit(p)
  IN
  /\ downs < MaxPointerDowns /\ inputs < MaxInputs
  /\ downs' = downs + 1 /\ inputs' = inputs + 1
  /\ IF clicked # Null
     THEN /\ draggingShapeId' = clicked
          /\ dragStartPos' = p
          /\ draggingGroupShapes' = GroupSnapshot(shapes, GetShape(shapes, clicked).zIndex)
          /\ ev' = ""
          /\ UNCHANGED <<isPanning, lastPointerPos>>
     ELSE /\ isPanning' = TRUE
          /\ dragStartPos' = p
          /\ lastPointerPos' = <<p>>
          /\ ev' = ""
          /\ UNCHANGED <<draggingShapeId, draggingGroupShapes>>
  /\ UNCHANGED <<labVars, storeVars, camera, hoverVars, renderVars, bgVars,
                 loaded, histVars>>

\* the body of onPointerDown: what a press at p does to the drag state
PointerDown(p) ==
  LET clicked == PointerHit(p)
  IN
  IF clicked = HoverId /\ hoveredShapeId # Null
  THEN \* alert(...) and return
       /\ ev' = ""
       /\ UNCHANGED dragVars
  ELSE IF clicked # Null
  THEN /\ draggingShapeId' = clicked
       /\ dragStartPos' = p
       /\ draggingGroupShapes' = GroupSnapshot(shapes, GetShape(shapes, clicked).zIndex)
       /\ ev' = ""
       /\ UNCHANGED <<isPanning, lastPointerPos>>
  ELSE /\ isPanning' = TRUE
       /\ dragStartPos' = p
       /\ lastPointerPos' = <<p>>
       /\ ev' = ""
       /\ UNCHANGED <<draggingShapeId, draggingGroupShapes>>

OnPointerDown(p) ==
  /\ downs < MaxPointerDowns /\ inputs < MaxInputs
  /\ downs' = downs + 1 /\ inputs' = inputs + 1
  /\ PointerDown(p)
  /\ UNCHANGED <<labVars, storeVars, camera, hoverVars, renderVars, bgVars,
                 loaded, histVars>>

\* a press among the presses and releases of the pointer stream, where a
\* release may be missing between two presses (a second pointer, or a
\* release outside the canvas, which has no listener)
PressAgain(p) ==
  /\ downs < MaxPresses
  /\ downs' = downs + 1
  /\ PointerDown(p)
  /\ UNCHANGED <<labVars, storeVars, camera, hoverVars, renderVars, bgVars,
                 loaded, inputs, histVars>>

\* an onPointerUp that ends the drag but leaves the group snapshot in place
OnPointerUp_KeepsSnapshot ==
  /\ draggingShapeId' = Null
  /\ draggingGroupShapes' = draggingGroupShapes
  /\ isPanning' = FALSE
  /\ lastPointerPos' = << >>
  /\ ev' = ""
  /\ UNCHANGED <<labVars, storeVars, camera, dragStartPos, hoverVars, renderVars,
                 bgVars, loaded, downs, inputs, histVars>>

OnPointerUp ==
  /\ draggingShapeId' = Null
  /\ draggingGroupShapes' = {}
  /\ isPanning' = FALSE
  /\ lastPointerPos' = << >>
  /\ ev' = ""
  /\ UNCHANGED <<labVars, storeVars, camera, dragStartPos, hoverVars, renderVars,
                 bgVars, loaded, downs, inputs, histVars>>

\* an onPointerLeave that removes the shape named by hoveredShapeId, the
\* parent, where the handler removes the one named by hoverShapeId
OnPointerLeave_RemovesParent ==
  /\ timers' = IF hoverLeaveTimer # 0 THEN ClearTimeout(timers, hoverLeaveTimer) ELSE timers
  /\ hoveredShapeId' = Null
  /\ hoverAnimationStart' = -1
  /\ IF hoverShapeId # Null
     THEN /\ shapes' = RemoveShape(shapes, hoveredShapeId)
          /\ selectedShapeId' = SelectedAfterRemove(selectedShapeId, hoveredShapeId)
          /\ hoverShapeId' = Null
     ELSE UNCHANGED <<shapes, selectedShapeId, hoverShapeId>>
  /\ leftElapsed' = -1
  /\ armElapsed' = -1
  /\ ev' = ""
  /\ UNCHANGED <<labVars, shapeDefinitions, shapeTints, camera, dragVars,
                 hoverLeaveTimer, renderVars, bgVars, loaded, downs, inputs>>

\* the pointer leaves the canvas
OnPointerLeave ==
  /\ timers' = IF hoverLeaveTimer # 0 THEN ClearTimeout(timers, hoverLeaveTimer) ELSE timers
  /\ hoveredShapeId' = Null
  /\ hoverAnimationStart' = -1
  /\ IF hoverShapeId # Null
     THEN /\ shapes' = RemoveShape(shapes, hoverShapeId)
          /\ selectedShapeId' = SelectedAfterRemove(selectedShapeId, hoverShapeId)
          /\ hoverShapeId' = Null
     ELSE UNCHANGED <<shapes, selectedShapeId, hoverShapeId>>
  /\ leftElapsed' = -1
  /\ armElapsed' = -1
  /\ ev' = ""
  /\ UNCHANGED <<labVars, shapeDefinitions, shapeTints, camera, dragVars,
                 hoverLeaveTimer, renderVars, bgVars, loaded, downs, inputs>>

\* a pending linger timer comes due
TimerFire ==
  \E t \in timers :
    /\ t.remaining = 0
    /\ timers' = timers \ {t}
    /\ HoverLeaveCallback
    /\ leftElapsed' = -1
    /\ armElapsed' = -1
    /\ ev' = "fired"
    /\ UNCHANGED <<labVars, shapeDefinitions, shapeTints, camera, dragVars,
                   renderVars, bgVars, loaded, downs, inputs>>

\* --------------------------------------------------------------- keyboard
IndexOf(st, id) == CHOOSE i \in 1..Len(st) : st[i].id = id

\* the digit keys onKeyDown answers, each with the index it parses to
DigitKeys == {"1", "2", "3"}
DigitOf(k) == CHOOSE n \in 1..3 : ToString(n) = k

\* onKeyDown for the digits, space, '+' and '-'
OnKeyDown(k) ==
  LET sel == IF selectedShapeId # Null /\ HasShape(shapes, selectedShapeId)
             THEN selectedShapeId ELSE Null
  IN
  /\ inputs < MaxInputs
  /\ inputs' = inputs + 1
  /\ IF Len(shapes) = 0
     THEN UNCHANGED <<shapes, selectedShapeId>>
     ELSE IF k = "+"
     THEN /\ shapes' = IF sel # Null
                       THEN SetShapeZIndex(shapes, sel, GetShape(shapes, sel).zIndex + 1)
                       ELSE shapes
          /\ UNCHANGED selectedShapeId
     ELSE IF k = "-"
     THEN /\ shapes' = IF sel # Null
                       THEN SetShapeZIndex(shapes, sel, Max2(0, GetShape(shapes, sel).zIndex - 1))
                       ELSE shapes
          /\ UNCHANGED selectedShapeId
     ELSE IF k \in DigitKeys
     THEN \* the shape at index k - 1 is looked up and logged
          UNCHANGED <<shapes, selectedShapeId>>
     ELSE /\ selectedShapeId' = IF sel # Null
                                THEN shapes[(IndexOf(shapes, sel) % Len(shapes)) + 1].id
                                ELSE shapes[1].id
          /\ UNCHANGED shapes
  /\ ev' = ""
  /\ UNCHANGED <<labVars, shapeDefinitions, shapeTints, camera, dragVars, hoverVars,
                 renderVars, bgVars, loaded, downs, histVars>>

\* ------------------------------------------------------------------ clock
HistoryCap == HoverLeaveDelay
Advance(e, d, cap) == IF e = -1 THEN -1 ELSE Min2(e + d, cap)

\* time passes, by at most TickMs and never past a pending timer's due time
Tick ==
  LET due == {t.remaining : t \in timers}
      d == IF due = {} THEN TickMs
           ELSE Min2(TickMs, CHOOSE m \in due : \A n \in due : m <= n)
  IN
  /\ \A t \in timers : t.remaining > 0
  /\ timers' = {[id |-> t.id, remaining |-> t.remaining - d] : t \in timers}
  /\ hoverAnimationStart' = Advance(hoverAnimationStart, d, HoverAnimationDuration)
  /\ leftElapsed' = Advance(leftElapsed, d, HistoryCap)
  /\ armElapsed' = Advance(armElapsed, d, HistoryCap)
  /\ ev' = ""
  /\ UNCHANGED <<labVars, storeVars, camera, dragVars, hoveredShapeId, hoverShapeId,
                 hoverLeaveTimer, renderVars, bgVars, loaded, downs, inputs>>

\* ---------------------------------------------------------- render frame
\* the hover-animation step of render: the bubble is rebuilt from its
\* parent at the current progress
AnimatedShapes ==
  IF hoverAnimationStart # -1 /\ hoverShapeId # Null
     /\ hoveredShapeId # Null /\ HasShape(shapes, hoveredShapeId)
  THEN UpdateShape(shapes, hoverShapeId,
                   CreateHoverShape(GetShape(shapes, hoveredShapeId),
                                    Min2(hoverAnimationStart, HoverAnimationDuration)))
  ELSE shapes

BgIds == {l.raf : l \in loads} \cup rafResets
FreshRaf == CHOOSE i \in 1..(Cardinality(BgIds) + 1) : i \notin BgIds

\* one requestAnimationFrame callback of render (multi-pass path);
\* videoHasFrame is what updateVideoTexture finds
Frame(videoHasFrame) ==
  LET st1 == AnimatedShapes
      n == BatchCount(st1, shapeTints)
      rebuild == lastBatchCount # <<n>>
      changed == bgTextureUrl # lastStateBg.url
      drop == changed /\ bgTextureUrl = Null /\ bgTexture # Null
      startLoad == changed /\ bgTextureUrl # Null /\ bgTextureType = "image"
      startVideo == changed /\ bgTextureUrl # Null /\ bgTextureType = "video"
      type1 == IF drop THEN Null ELSE bgTextureType
      tex1 == IF drop THEN Null ELSE IF startVideo THEN "empty" ELSE bgTexture
      ready1 == IF startVideo THEN FALSE ELSE bgTextureReady
      upload == type1 = "video" /\ tex1 # Null /\ videoHasFrame
  IN
  /\ shapes' = st1
  /\ hoverAnimationStart' =
       IF hoverAnimationStart # -1 /\ hoverShapeId # Null
          /\ hoverAnimationStart >= HoverAnimationDuration
       THEN -1 ELSE hoverAnimationStart
  /\ IF rebuild
     THEN passes' = BuildPasses(n) /\ lastBatchCount' = <<n>>
     ELSE UNCHANGED <<passes, lastBatchCount>>
  /\ bgTextureType' = type1
  /\ bgTexture' = tex1
  /\ bgTextureReady' = (ready1 \/ upload)
  /\ bgTextureRatio' = IF upload THEN bgTextureUrl ELSE bgTextureRatio
  /\ IF startLoad
     THEN /\ loads' = loads \cup {[url |-> bgTextureUrl, raf |-> FreshRaf]}
          /\ rafResets' = rafResets \cup {FreshRaf}
     ELSE UNCHANGED <<loads, rafResets>>
  /\ lastStateBg' = [url |-> bgTextureUrl, type |-> type1]
  /\ textureLeaked' = (textureLeaked \/ (startVideo /\ bgTexture # Null))
  /\ ev' = ""
  /\ UNCHANGED <<labVars, shapeDefinitions, selectedShapeId, shapeTints, camera,
                 dragVars, hoveredShapeId, hoverShapeId, hoverLeaveTimer, timers,
                 bgTextureUrl, loaded, downs, inputs, histVars>>

\* ----------------------------------------------------------------- resize
\* window resize: setCanvasInfo re-renders the component (the body builds a
\* new ShapeManager from shapeDefinitions), the effect is torn down (the
\* linger timer cleared, the renderer disposed) and run again (a renderer
\* built from the current batches, a fresh lastState)
OnResize ==
  /\ inputs < MaxInputs
  /\ Cardinality(BgIds) < MaxInFlight
  /\ inputs' = inputs + 1
  /\ shapes' = NewShapeManager(shapeDefinitions)
  /\ selectedShapeId' = Null
  /\ shapeTints' = {}
  /\ timers' = IF hoverLeaveTimer # 0 THEN ClearTimeout(timers, hoverLeaveTimer) ELSE timers
  /\ passes' = BuildPasses(BatchCount(NewShapeManager(shapeDefinitions), {}))
  /\ lastStateBg' = [url |-> Null, type |-> Null]
  /\ leftElapsed' = -1
  /\ armElapsed' = -1
  /\ ev' = ""
  /\ UNCHANGED <<labVars, shapeDefinitions, camera, dragVars, hoveredShapeId,
                 hoverShapeId, hoverAnimationStart, hoverLeaveTimer, lastBatchCount,
                 bgTextureUrl, bgTextureType, bgTexture, bgTextureRatio, bgTextureReady,
                 loads, rafResets, textureLeaked, loaded, downs>>

\* ------------------------------------------------------------- background
BgSources ==
  { [url |-> Null, type |-> Null],
    [url |-> "u1", type |-> "image"],
    [url |-> "u2", type |-> "image"],
    [url |-> "v1", type |-> "video"] }

\* the background selection changes
SetBackground(src) ==
  /\ src.url # bgTextureUrl
  /\ Cardinality(BgIds) < MaxInFlight
  /\ bgTextureUrl' = src.url
  /\ bgTextureType' = IF src.url = Null THEN bgTextureType ELSE src.type
  /\ ev' = ""
  /\ UNCHANGED <<labVars, storeVars, camera, dragVars, hoverVars, renderVars,
                 bgTexture, bgTextureRatio, bgTextureReady, lastStateBg, loads, rafResets,
                 textureLeaked, loaded, downs, inputs, histVars>>

\* a then-callback that applies its texture without comparing URLs
LoadResolved_NoGuard(l) ==
  /\ l \in loads
  /\ loads' = loads \ {l}
  /\ rafResets' = rafResets \ {l.raf}
  /\ bgTexture' = l.url
  /\ bgTextureRatio' = l.url
  /\ bgTextureReady' = TRUE
  /\ textureLeaked' = (textureLeaked \/ bgTexture # Null)
  /\ ev' = (IF bgTextureUrl = l.url THEN "" ELSE "stale")
  /\ UNCHANGED <<labVars, storeVars, camera, dragVars, hoverVars, renderVars,
                 bgTextureUrl, bgTextureType, lastStateBg, loaded, downs, inputs, histVars>>

\* the then-callback of loadTextureFromURL
LoadResolved(l) ==
  /\ l \in loads
  /\ loads' = loads \ {l}
  /\ IF bgTextureUrl = l.url
     THEN /\ rafResets' = rafResets \ {l.raf}
          /\ bgTexture' = l.url
          /\ bgTextureRatio' = l.url
          /\ bgTextureReady' = TRUE
          /\ textureLeaked' = (textureLeaked \/ bgTexture # Null)
     ELSE /\ textureLeaked' = TRUE
          /\ UNCHANGED <<rafResets, bgTexture, bgTextureRatio, bgTextureReady>>
  /\ ev' = (IF bgTextureUrl = l.url THEN "" ELSE "stale")
  /\ UNCHANGED <<labVars, storeVars, camera, dragVars, hoverVars, renderVars,
                 bgTextureUrl, bgTextureType, lastStateBg, loaded, downs, inputs, histVars>>

\* the image fails to load: the promise rejects and no callback runs
LoadRejected(l) ==
  /\ l \in loads
  /\ loads' = loads \ {l}
  /\ ev' = ""
  /\ UNCHANGED <<labVars, storeVars, camera, dragVars, hoverVars, renderVars,
                 bgTextureUrl, bgTextureType, bgTexture, bgTextureRatio, bgTextureReady,
                 lastStateBg, rafResets, textureLeaked, loaded, downs, inputs, histVars>>

\* the deferred requestAnimationFrame callback of a started load
RafReset(id) ==
  /\ id \in rafResets
  /\ rafResets' = rafResets \ {id}
  /\ bgTextureReady' = FALSE
  /\ ev' = ""
  /\ UNCHANGED <<labVars, storeVars, camera, dragVars, hoverVars, renderVars,
                 bgTextureUrl, bgTextureType, bgTexture, bgTextureRatio, lastStateBg, loads,
                 textureLeaked, loaded, downs, inputs, histVars>>

\* ------------------------------------------------------ depth-peel graph
\* peel_<i> of buildDepthPeelingPasses: u_previousDepth is null for the
\* first peel and the string peel_<i-1>_depth for the others
PeelConfig(i) ==
  [name |-> "peel", index |-> i,
   inputs |-> {[uniform |-> "u_previousDepth",
                from |-> IF i = 0 THEN Null ELSE "peel_" \o ToString(i - 1) \o "_depth"]},
   toScreen |-> FALSE]

\* buildDepthPeelingPasses(shapes, nPeels); hasShapes is shapes.length > 0
BuildDepthPeelingPasses(hasShapes, nPeels) ==
  LET bg == << BgPassConfig >>
      blur == IF hasShapes
              THEN << [name |-> "allShapesMask", index |-> 0, inputs |-> {}, toScreen |-> FALSE],
                      [name |-> "vBlurPass", index |-> 0,
                       inputs |-> {[uniform |-> "u_prevPassTexture", from |-> "bgPass"],
                                   [uniform |-> "u_shapeMask", from |-> "allShapesMask"]},
                       toScreen |-> FALSE],
                      [name |-> "hBlurPass", index |-> 0,
                       inputs |-> {[uniform |-> "u_prevPassTexture", from |-> "vBlurPass"],
                                   [uniform |-> "u_shapeMask", from |-> "allShapesMask"]},
                       toScreen |-> FALSE] >>
              ELSE << >>
      peels == [i \in 1..nPeels |-> PeelConfig(i - 1)]
      final == IF hasShapes
               THEN [name |-> "composite", index |-> 0,
                     inputs |-> {[uniform |-> "u_blurredBg", from |-> "hBlurPass"],
                                 [uniform |-> "u_bg", from |-> "bgPass"]}
                                \cup {[uniform |-> "u_peelColor" \o ToString(i),
                                       from |-> "peel_" \o ToString(i)] : i \in 0..(nPeels - 1)},
                     toScreen |-> TRUE]
               ELSE [name |-> "passthrough", index |-> 0,
                     inputs |-> {[uniform |-> "u_prevPassTexture", from |-> "bgPass"]},
                     toScreen |-> TRUE]
  IN bg \o blur \o peels \o << final >>

\* the pass lists the two render paths hand to the renderer
ConfigLists ==
  {BuildPasses(n) : n \in 0..MaxBatches}
    \cup {BuildDepthPeelingPasses(h, NPeels) : h \in BOOLEAN}

\* ---------------------------------------------------- MultiPassRenderer
\* new RenderPass: a program, a vertex buffer and a vertex array, and a
\* framebuffer unless the pass writes to the screen
RenderPassResources(inst, toScreen) ==
  {[inst |-> inst, kind |-> k] :
     k \in IF toScreen THEN {"program", "buffer", "vao"}
           ELSE {"program", "framebuffer", "buffer", "vao"}}

\* the RenderPass objects made for a config list, numbered from first
NewPasses(configs, first) ==
  [i \in 1..Len(configs) |-> [config |-> configs[i], inst |-> first + i - 1]]

\* passes.set(cfg.name, pass) for each in order: a later name replaces an earlier
MapOfPasses(arr) ==
  {[key |-> PassName(arr[i].config), inst |-> arr[i].inst] :
     i \in {j \in 1..Len(arr) :
              \A k \in (j + 1)..Len(arr) : PassName(arr[k].config) # PassName(arr[j].config)}}

\* what RenderPass.dispose deletes for each pass of a set of array indices
DisposedBy(arr, idx) ==
  UNION {RenderPassResources(arr[i].inst, arr[i].config.toScreen) : i \in idx}

\* fromPass?.getOutputTexture(): undefined when no pass has the name, null
\* when the pass has no framebuffer
OutputTextureOf(arr, map, from) ==
  IF \E e \in map : e.key = from
  THEN LET inst == (CHOOSE e \in map : e.key = from).inst
           i == CHOOSE j \in 1..Len(arr) : arr[j].inst = inst
       IN IF arr[i].config.toScreen THEN "null" ELSE "texture_" \o ToString(inst)
  ELSE "undefined"

\* new MultiPassRenderer(canvas, configs)
Construct(configs) ==
  /\ passMap = {}
  /\ rebuilds < MaxRebuilds
  /\ rebuilds' = rebuilds + 1
  /\ passesArray' = NewPasses(configs, nextInst)
  /\ passMap' = MapOfPasses(NewPasses(configs, nextInst))
  /\ gpuLive' = gpuLive \cup DisposedBy(NewPasses(configs, nextInst), 1..Len(configs))
  /\ nextInst' = nextInst + Len(configs)
  /\ boundInputs' = {}
  /\ UNCHANGED <<appVars, notRendererVars, gpuDoubleFreed>>

\* MultiPassRenderer.rebuildPasses(configs), called by render on a live renderer
RebuildPasses(configs) ==
  LET old == DisposedBy(passesArray, 1..Len(passesArray))
      arr == NewPasses(configs, nextInst)
  IN
  /\ passMap # {}
  /\ rebuilds < MaxRebuilds
  /\ rebuilds' = rebuilds + 1
  /\ gpuDoubleFreed' = gpuDoubleFreed \cup (old \ gpuLive)
  /\ passesArray' = arr
  /\ passMap' = MapOfPasses(arr)
  /\ gpuLive' = (gpuLive \ old) \cup DisposedBy(arr, 1..Len(arr))
  /\ nextInst' = nextInst + Len(configs)
  /\ UNCHANGED <<appVars, notRendererVars, boundInputs>>

\* MultiPassRenderer.render: the inputs of each pass are looked up by name
RenderPasses ==
  /\ passMap # {}
  /\ boundInputs' =
       UNION {{[pass |-> PassName(passesArray[i].config), uniform |-> e.uniform,
                texture |-> OutputTextureOf(passesArray, passMap, e.from)] :
                 e \in passesArray[i].config.inputs} : i \in 1..Len(passesArray)}
  /\ UNCHANGED <<appVars, notRendererVars, passesArray, passMap, gpuLive, gpuDoubleFreed,
                 nextInst, rebuilds>>

\* MultiPassRenderer.dispose, from the effect cleanup: the passes of the
\* map are disposed and the map cleared; passesArray is left as it is
DisposeRenderer ==
  LET idx == {i \in 1..Len(passesArray) : \E e \in passMap : e.inst = passesArray[i].inst}
      old == DisposedBy(passesArray, idx)
  IN
  /\ passesArray # << >>
  /\ gpuDoubleFreed' = gpuDoubleFreed \cup (old \ gpuLive)
  /\ gpuLive' = gpuLive \ old
  /\ passMap' = {}
  /\ UNCHANGED <<appVars, notRendererVars, passesArray, nextInst, boundInputs, rebuilds>>

\* ---------------------------------------------------------- ShapeManager
\* The methods of ShapeManager on the Map itself: an entry is [key, shape],
\* the key being what Map.set was called with and shape.id the id field of
\* the record stored under it.
StoreIds == {"s1", "shape_1", HoverId}

\* what addShape is called with: id (Null when absent), position, zIndex,
\* visible (TRUE also standing for an absent field: visible !== false)
ShapeData ==
  [id : {Null, "s1", HoverId}, x : {0, 100}, y : {0}, zIndex : {0, 1}, visible : BOOLEAN]

\* canvasInfo.dpr
Dprs == {1, 2}

\* mousePos of a hit test
MousePoints ==
  { [x |-> 350, y |-> 300], [x |-> 250, y |-> 300], [x |-> 450, y |-> 300], [x |-> 700, y |-> 300] }

SmHas(m, key) == \E i \in 1..Len(m) : m[i].key = key
SmIndex(m, key) == CHOOSE i \in 1..Len(m) : m[i].key = key

\* Map.set
SmSet(m, key, shape) ==
  IF SmHas(m, key)
  THEN [i \in 1..Len(m) |-> IF m[i].key = key THEN [key |-> key, shape |-> shape] ELSE m[i]]
  ELSE Append(m, [key |-> key, shape |-> shape])

\* addShape(shapeData): the id given or shape_<nextId++>, the defaults applied
SmAddShape(data) ==
  LET id == IF data.id # Null THEN data.id ELSE "shape_" \o ToString(smNextId)
      shape == [id |-> id, x |-> data.x, y |-> data.y, w |-> ShapeWidth, h |-> ShapeWidth,
                visible |-> data.visible, draggable |-> TRUE, zIndex |-> data.zIndex]
  IN
  /\ smOps < MaxStoreOps
  /\ smOps' = smOps + 1
  /\ smCall' = ""
  /\ smQuery' = << >>
  /\ smNextId' = IF data.id # Null THEN smNextId ELSE smNextId + 1
  /\ smShapes' = SmSet(smShapes, id, shape)
  /\ smResult' = id
  /\ UNCHANGED <<appVars, notManagerVars, smSelected, smDragging>>

\* a removeShape that reports success whether or not the id was there
SmRemoveShape_ReturnsTrue(id) ==
  /\ smOps < MaxStoreOps
  /\ smOps' = smOps + 1
  /\ smCall' = "removeShape"
  /\ smQuery' = << >>
  /\ smShapes' = SelectSeq(smShapes, LAMBDA e : e.key # id)
  /\ smSelected' = IF smSelected = id THEN Null ELSE smSelected
  /\ smDragging' = IF smDragging = id THEN Null ELSE smDragging
  /\ smResult' = "true"
  /\ UNCHANGED <<appVars, notManagerVars, smNextId>>

\* removeShape(id)
SmRemoveShape(id) ==
  /\ smOps < MaxStoreOps
  /\ smOps' = smOps + 1
  /\ smCall' = "removeShape"
  /\ smQuery' = << >>
  /\ smShapes' = SelectSeq(smShapes, LAMBDA e : e.key # id)
  /\ smSelected' = IF smSelected = id THEN Null ELSE smSelected
  /\ smDragging' = IF smDragging = id THEN Null ELSE smDragging
  /\ smResult' = IF SmHas(smShapes, id) THEN "true" ELSE "false"
  /\ UNCHANGED <<appVars, notManagerVars, smNextId>>

\* setShapeVisible(id, visible): updateShape(id, { visible })
SmSetShapeVisible(id, visible) ==
  /\ smOps < MaxStoreOps
  /\ smOps' = smOps + 1
  /\ smCall' = "updateShape"
  /\ smQuery' = << >>
  /\ IF SmHas(smShapes, id)
     THEN /\ smShapes' = [smShapes EXCEPT ![SmIndex(smShapes, id)].shape.visible = visible]
          /\ smResult' = "true"
     ELSE /\ smResult' = "false"
          /\ UNCHANGED smShapes
  /\ UNCHANGED <<appVars, notManagerVars, smSelected, smDragging, smNextId>>

\* setShapeZIndex(id, zIndex): updateShape(id, { zIndex })
SmSetShapeZIndex(id, zIndex) ==
  /\ smOps < MaxStoreOps
  /\ smOps' = smOps + 1
  /\ smCall' = "updateShape"
  /\ smQuery' = << >>
  /\ IF SmHas(smShapes, id)
     THEN /\ smShapes' = [smShapes EXCEPT ![SmIndex(smShapes, id)].shape.zIndex = zIndex]
          /\ smResult' = "true"
     ELSE /\ smResult' = "false"
          /\ UNCHANGED smShapes
  /\ UNCHANGED <<appVars, notManagerVars, smSelected, smDragging, smNextId>>

\* updateShape(id, updates) with updates carrying an id field: Object.assign
\* writes it into the record, the Map key stays
SmUpdateShapeId(id, newId) ==
  /\ smOps < MaxStoreOps
  /\ smOps' = smOps + 1
  /\ smCall' = "updateShape"
  /\ smQuery' = << >>
  /\ IF SmHas(smShapes, id)
     THEN /\ smShapes' = [smShapes EXCEPT ![SmIndex(smShapes, id)].shape.id = newId]
          /\ smResult' = "true"
     ELSE /\ smResult' = "false"
          /\ UNCHANGED smShapes
  /\ UNCHANGED <<appVars, notManagerVars, smSelected, smDragging, smNextId>>

\* selectShape(id)
SmSelectShape(id) ==
  /\ smOps < MaxStoreOps
  /\ smOps' = smOps + 1
  /\ smCall' = ""
  /\ smQuery' = << >>
  /\ smSelected' = id
  /\ smResult' = ""
  /\ UNCHANGED <<appVars, notManagerVars, smShapes, smDragging, smNextId>>

\* startDragging(id, startPos)
SmStartDragging(id) ==
  /\ smOps < MaxStoreOps
  /\ smOps' = smOps + 1
  /\ smCall' = ""
  /\ smQuery' = << >>
  /\ IF SmHas(smShapes, id) /\ smShapes[SmIndex(smShapes, id)].shape.draggable
     THEN smDragging' = id /\ smResult' = "true"
     ELSE smResult' = "false" /\ UNCHANGED smDragging
  /\ UNCHANGED <<appVars, notManagerVars, smShapes, smSelected, smNextId>>

\* deserialize(data) of an empty store's serialization: the Map and nextId
\* are replaced, the selection and the dragging id stay
SmDeserializeEmpty ==
  /\ smOps < MaxStoreOps
  /\ smOps' = smOps + 1
  /\ smCall' = ""
  /\ smQuery' = << >>
  /\ smShapes' = << >>
  /\ smNextId' = 1
  /\ smResult' = ""
  /\ UNCHANGED <<appVars, notManagerVars, smSelected, smDragging>>

\* a sort that puts the highest zIndex first
SortedRank_Descending(m, i) ==
  Cardinality({j \in 1..Len(m) :
                 m[j].shape.zIndex > m[i].shape.zIndex
                 \/ (m[j].shape.zIndex = m[i].shape.zIndex /\ j < i)}) + 1

\* getSortedShapes: the values sorted ascending by zIndex; Array.sort is
\* stable, so equal zIndex keeps insertion order.  The k-th shape of the
\* sorted array is the one with k - 1 shapes before it.
SortedRank(m, i) ==
  Cardinality({j \in 1..Len(m) :
                 m[j].shape.zIndex < m[i].shape.zIndex
                 \/ (m[j].shape.zIndex = m[i].shape.zIndex /\ j < i)}) + 1

GetSortedShapes(m) ==
  [k \in 1..Len(m) |-> m[CHOOSE i \in 1..Len(m) : SortedRank(m, i) = k].shape]

\* the bounds test of getShapeAtPosition in physical pixels, doubled so
\* that the half sizes stay integers
HitBox(shape, mousePos, dpr) ==
  LET mousePhysX == 2 * mousePos.x * dpr
      mousePhysY == 2 * mousePos.y * dpr
      centerX == ViewportWidth * dpr
      centerY == ViewportHeight * dpr
      shapeX == centerX - 2 * shape.x - shape.w
      shapeY == centerY + 2 * shape.y - shape.h
  IN /\ mousePhysX >= shapeX /\ mousePhysX <= shapeX + 2 * shape.w
     /\ mousePhysY >= shapeY /\ mousePhysY <= shapeY + 2 * shape.h

\* the scan of getShapeAtPosition from index i down to 1
RECURSIVE ScanFromTop(_, _, _, _)
ScanFromTop(sorted, i, mousePos, dpr) ==
  IF i = 0 THEN Null
  ELSE IF ~sorted[i].visible THEN ScanFromTop(sorted, i - 1, mousePos, dpr)
  ELSE IF HitBox(sorted[i], mousePos, dpr) THEN sorted[i].id
  ELSE ScanFromTop(sorted, i - 1, mousePos, dpr)

\* getShapeAtPosition(mousePos, canvasInfo)
SmGetShapeAtPosition(m, mousePos, dpr) ==
  ScanFromTop(GetSortedShapes(m), Len(m), mousePos, dpr)

\* a hit test; the dpr and the point are kept with the result
SmHitTest(mousePos, dpr) ==
  /\ smResult' = SmGetShapeAtPosition(smShapes, mousePos, dpr)
  /\ smCall' = ""
  /\ smQuery' = <<mousePos, dpr>>
  /\ UNCHANGED <<appVars, notManagerVars, smShapes, smSelected, smDragging, smNextId, smOps>>

\* ------------------------------------------------------------ batch list
Tints == {"red", White}

\* add(partial): the next shape of the store with its zIndex, tint, visible
BatchAddShape(z, tint, visible) ==
  LET id == "shape_" \o ToString(Len(batchStore) + 1)
  IN
  /\ Len(batchStore) < MaxBatchShapes
  /\ batchStore' = Append(batchStore,
                     [id |-> id, x |-> 0, y |-> 0, w |-> ShapeWidth, h |-> ShapeWidth,
                      visible |-> visible, draggable |-> TRUE, zIndex |-> z])
  /\ batchTints' = batchTints \cup {[id |-> id, tint |-> tint]}
  /\ batches' = << >>
  /\ batchCap' = 0
  /\ UNCHANGED <<appVars, notBatchVars>>

\* the (zIndex, tint) compound key of a shape
KeyOf(tints, s) == <<s.zIndex, TintOf(tints, s.id)>>

VisibleShapes(st) == SelectSeq(st, LAMBDA s : s.visible)

\* the group of a key, in store order
GroupOf(vis, tints, key) == SelectSeq(vis, LAMBDA s : KeyOf(tints, s) = key)

\* where a key's group was opened: the first visible shape carrying it
FirstOf(vis, tints, key) ==
  CHOOSE i \in 1..Len(vis) :
    /\ KeyOf(tints, vis[i]) = key
    /\ \A j \in 1..(i - 1) : KeyOf(tints, vis[j]) # key

ChunkCount(n, cap) == (n + cap - 1) \div cap

\* a split that lets each chunk run one shape into the next
ChunkOf_OffByOne(g, cap, c) == SubSeq(g, (c - 1) * cap + 1, Min2(c * cap + 1, Len(g)))

\* chunk c of a group split at maxPerBatch
ChunkOf(g, cap, c) == SubSeq(g, (c - 1) * cap + 1, Min2(c * cap, Len(g)))

\* one slot per batch: <<key, chunk number>>
BatchSlots(vis, tints, cap) ==
  UNION {{<<k, c>> : c \in 1..ChunkCount(Len(GroupOf(vis, tints, k)), cap)} :
           k \in BatchKeys(vis, tints)}

\* the final order: ascending zIndex, the sort keeping groups in the order
\* they were opened and chunks in the order they were split
SlotBefore(vis, tints, a, b) ==
  \/ a[1][1] < b[1][1]
  \/ /\ a[1][1] = b[1][1]
     /\ \/ FirstOf(vis, tints, a[1]) < FirstOf(vis, tints, b[1])
        \/ a[1] = b[1] /\ a[2] < b[2]

\* getBatchedShapeData(maxPerBatch).batches: [shapes, zIndex, tint]
GetBatchedShapeData(st, tints, cap) ==
  LET vis == VisibleShapes(st)
      slots == BatchSlots(vis, tints, cap)
      rank(a) == Cardinality({b \in slots : SlotBefore(vis, tints, b, a)}) + 1
  IN [r \in 1..Cardinality(slots) |->
        LET a == CHOOSE a \in slots : rank(a) = r
            chunk == ChunkOf(GroupOf(vis, tints, a[1]), cap, a[2])
        IN [shapes |-> [k \in 1..Len(chunk) |-> chunk[k].id],
            zIndex |-> a[1][1],
            tint |-> a[1][2]]]

\* a call of getBatchedShapeData(cap) on the store
CallGetBatchedShapeData(cap) ==
  /\ batches' = GetBatchedShapeData(batchStore, batchTints, cap)
  /\ batchCap' = cap
  /\ UNCHANGED <<appVars, notBatchVars, batchStore, batchTints>>

\* ---------------------------------------------------------- depth peeling
PeelShapes == [zIndex : 0..MaxLayer, visible : BOOLEAN]

\* whether the u_previousDepth input of peel_<i> names a pass of the list
PreviousDepthResolves(configs, i) ==
  \E e \in PeelConfig(i).inputs :
    /\ e.uniform = "u_previousDepth"
    /\ \E k \in 1..Len(configs) : PassName(configs[k]) = e.from

\* texture(u_previousDepth, v_uv).r * MAX_Z as peel_<i> reads it: the depth
\* the named pass wrote (gl_FragDepth = minZ / MAX_Z, 0 where it discarded)
\* if the input resolves; otherwise the sampler has no texture bound and
\* reads 0
PreviousDepthTexel(configs, i, drawn) ==
  IF PreviousDepthResolves(configs, i)
  THEN IF drawn[i] = -1 THEN 0 ELSE Min2(drawn[i], MaxZ)
  ELSE 0

\* main() of the depth peeling shader at one pixel: the lowest zIndex among
\* the visible shapes containing the pixel with z > prevDepth, -1 for discard
\* (the 1e-4 of the comparison absorbs the rounding of the stored depth)
PeelMain(frags, texel) ==
  LET prevDepth == IF texel = 0 THEN -1 ELSE texel
      closer == {f.zIndex : f \in {g \in frags : g.visible /\ g.zIndex > prevDepth
                                                  /\ g.zIndex < MaxZ + 1}}
  IN IF closer = {} THEN -1
     ELSE CHOOSE z \in closer : \A y \in closer : z <= y

\* the draw of the next peel pass of the frame
RunPeel ==
  /\ peelIndex < NPeels
  /\ peeled' = Append(peeled,
                 PeelMain(peelFragments,
                          PreviousDepthTexel(BuildDepthPeelingPasses(TRUE, NPeels),
                                             peelIndex, peeled)))
  /\ peelIndex' = peelIndex + 1
  /\ UNCHANGED <<appVars, notPeelVars, peelFragments>>

\* the next frame, the shapes under the pixel having changed
NextPeelFrame(frags) ==
  /\ peelIndex = NPeels
  /\ peelFragments' = frags
  /\ peelIndex' = 0
  /\ peeled' = << >>
  /\ UNCHANGED <<appVars, notPeelVars>>

\* ------------------------------------------------------ adaptive quality
PerformanceModes == {"high", "medium", "low", "auto"}

\* performance.now() - frameStart of a frame, in ms
FrameTimes == {16, 30}

RECURSIVE SumSeq(_)
SumSeq(q) == IF q = << >> THEN 0 ELSE Head(q) + SumSeq(Tail(q))

\* fps = 1000 / (sum / 60) against targetFPS * 0.7 and targetFPS * 0.9,
\* cross-multiplied: fps < 42 iff 60000 < 42 * sum, fps > 54 iff 60000 > 54 * sum
FpsLow(sum) == 1000 * HistorySize * 10 < TargetFPS * 7 * sum
FpsHigh(sum) == 1000 * HistorySize * 10 > TargetFPS * 9 * sum

LowQuality ==
  [enableSelectiveAlpha |-> TRUE, tintAlphaThreshold |-> 98,
   effectComplexityThreshold |-> 15, ditherStrength |-> 20, ditherType |-> 1]

HighQuality ==
  [enableSelectiveAlpha |-> TRUE, tintAlphaThreshold |-> 85,
   effectComplexityThreshold |-> 50, ditherStrength |-> 40, ditherType |-> 2]

\* an adaptation without the band between the thresholds
AdaptQualitySettings_NoBand(sum, q) ==
  IF FpsLow(sum) THEN LowQuality ELSE HighQuality

\* adaptQualitySettings(avgFrameTime, qualityControls), avgFrameTime = sum / 60
AdaptQualitySettings(sum, q) ==
  IF FpsLow(sum) THEN LowQuality
  ELSE IF FpsHigh(sum) THEN HighQuality
  ELSE q

\* the end of a frame of frameTime ms: push, and past 60 samples shift,
\* average and adapt in auto mode
MonitorFrame(frameTime) ==
  LET pushed == Append(frameTimeHistory, frameTime)
      changed == frameTimeHistory # << >>
                   /\ frameTimeHistory[Len(frameTimeHistory)] # frameTime
  IN
  /\ changed => rateChanges < MaxRateChanges
  /\ rateChanges' = IF changed THEN rateChanges + 1 ELSE rateChanges
  /\ IF Len(pushed) > HistorySize
     THEN /\ frameTimeHistory' = Tail(pushed)
          /\ adaptiveQuality' =
               IF performanceMode = "auto"
               THEN AdaptQualitySettings(SumSeq(Tail(pushed)), adaptiveQuality)
               ELSE adaptiveQuality
     ELSE /\ frameTimeHistory' = pushed
          /\ UNCHANGED adaptiveQuality
  /\ UNCHANGED <<appVars, notQualityVars, performanceMode>>

\* ------------------------------------------------------------- fitToView
\* nodes handed to fitToView: position, width and height, 0 standing for an
\* absent (or zero) size, which the code replaces by 300 and 100
FitNodeSet == [x : {-300, 0, 300}, y : {0}, width : {0, 200, 1000}, height : {0, 200}]

FitPaddings == {100, 0, -100, -150}

FitViewports == {[w |-> ViewportWidth, h |-> ViewportHeight], [w |-> 400, h |-> 300]}

RECURSIVE SeqsUpTo(_, _)
SeqsUpTo(S, n) ==
  IF n = 0 THEN {<< >>}
  ELSE LET shorter == SeqsUpTo(S, n - 1)
       IN shorter \cup {Append(q, e) : q \in {r \in shorter : Len(r) = n - 1}, e \in S}

NodeWidth(node) == IF node.width = 0 THEN 300 ELSE node.width
NodeHeight(node) == IF node.height = 0 THEN 100 ELSE node.height

MinOfSet(S) == CHOOSE z \in S : \A y \in S : z <= y
MaxOfSet(S) == CHOOSE z \in S : \A y \in S : z >= y

\* a quotient num / den of JavaScript numbers with num > 0: den = 0 is
\* Infinity, a negative den a negative number
QuotLeq(a, b) ==
  LET sa == IF a.den < 0 THEN [num |-> -a.num, den |-> -a.den] ELSE a
      sb == IF b.den < 0 THEN [num |-> -b.num, den |-> -b.den] ELSE b
  IN IF sb.den = 0 THEN TRUE
     ELSE IF sa.den = 0 THEN FALSE
     ELSE sa.num * sb.den <= sb.num * sa.den

\* a fit that takes the smaller of the two quotients without the 1:1 cap
FitZoom_NoCap(zoomX, zoomY) ==
  IF QuotLeq(zoomX, zoomY) THEN zoomX ELSE zoomY

\* Math.min(zoomX, zoomY, 1.0)
FitZoom(zoomX, zoomY) ==
  LET one == [num |-> 1, den |-> 1]
      m == IF QuotLeq(zoomX, zoomY) THEN zoomX ELSE zoomY
  IN IF QuotLeq(m, one) THEN m ELSE one

\* fitToView(nodes, padding), the first call on the camera: the result does
\* not depend on the centre and zoom the camera had
FitToView(nodes, padding) ==
  /\ fitNodes = << >>
  /\ fitNodes' = nodes
  /\ fitPadding' = padding
  /\ IF Len(nodes) = 0
     THEN UNCHANGED <<fitCenter2, fitZoom>>
     ELSE LET idx == 1..Len(nodes)
              minX == MinOfSet({nodes[i].x - NodeWidth(nodes[i]) \div 2 : i \in idx}) - padding
              minY == MinOfSet({nodes[i].y - NodeHeight(nodes[i]) \div 2 : i \in idx}) - padding
              maxX == MaxOfSet({nodes[i].x + NodeWidth(nodes[i]) \div 2 : i \in idx}) + padding
              maxY == MaxOfSet({nodes[i].y + NodeHeight(nodes[i]) \div 2 : i \in idx}) + padding
              zoomX == [num |-> fitViewport.w, den |-> maxX - minX]
              zoomY == [num |-> fitViewport.h, den |-> maxY - minY]
          IN /\ fitCenter2' = [x |-> minX + maxX, y |-> minY + maxY]
             /\ fitZoom' = FitZoom(zoomX, zoomY)
  /\ UNCHANGED <<appVars, notFitVars, fitViewport>>

\* ------------------------------------------------------------------ smin
NaN == [num |-> 0, den |-> 0, nan |-> TRUE]

\* smin(a, b, k) for k >= 0: h = max(k - abs(a - b), 0.0) / k and
\* min(a, b) - h * h * k * (1.0 / 4.0), that is (4k min(a, b) - m * m) / 4k
\* with m = max(k - |a - b|, 0).  At k = 0 h is 0.0 / 0.0, a division by zero,
\* whose value GLSL leaves unspecified: NaN (and Infinity) make the result
\* NaN, a finite value makes h * h * 0 vanish and the result min(a, b).
SminOutcomes(a, b, k) ==
  LET m == Max2(k - Abs(a - b), 0)
  IN IF k = 0
     THEN {NaN, [num |-> Min2(a, b), den |-> 1, nan |-> FALSE]}
     ELSE {[num |-> 4 * k * Min2(a, b) - m * m, den |-> 4 * k, nan |-> FALSE]}

\* an evaluation of smin in mainSDF
Smin(a, b, k) ==
  /\ sminA' = a /\ sminB' = b /\ sminK' = k
  /\ sminResult' \in SminOutcomes(a, b, k)
  /\ UNCHANGED <<appVars, notSminVars>>

\* -------------------------------------------------------- shape uniforms
\* the values the maxShapesPerPass control allows
Caps == {c \in CapMin..CapMax : (c - CapMin) % CapStep = 0}

\* a visible shape is added to the store (the shapes here share zIndex and
\* tint, so they form one group that getBatchedShapeData splits at the cap)
UniAddShape ==
  /\ uniVisible < MaxVisible
  /\ uniVisible' = uniVisible + 1
  /\ UNCHANGED <<uniCap, uniBg, uniBatches>>
  /\ UNCHANGED <<appVars, notUniVars>>

\* the maxShapesPerPass control is moved
UniSetCap(c) ==
  /\ c # uniCap
  /\ uniCap' = c
  /\ UNCHANGED <<uniVisible, uniBg, uniBatches>>
  /\ UNCHANGED <<appVars, notUniVars>>

\* passUniforms of render: bgPass gets the number of visible shapes as
\* u_shapeCount and the arrays of getShapeDataForShader, which have
\* DataForShaderMax slots; alphaBatch_i gets its batch's length and arrays
\* of maxShapesPerPass slots
UniRender ==
  /\ uniBg' = [count |-> uniVisible, length |-> DataForShaderMax]
  /\ uniBatches' =
       [i \in 1..ChunkCount(uniVisible, uniCap) |->
          [count |-> Min2(uniCap, uniVisible - (i - 1) * uniCap), length |-> uniCap]]
  /\ UNCHANGED <<uniVisible, uniCap>>
  /\ UNCHANGED <<appVars, notUniVars>>

\* --------------------------------------------------------- specifications
\* the interaction controller, the store and the render loop
Next ==
  \/ \E data \in Datasets : Load(data)
  \/ \E p \in PointerPoints : OnPointerMove(p)
  \/ \E p \in PointerPoints : OnPointerDown(p)
  \/ OnPointerUp
  \/ OnPointerLeave
  \/ TimerFire
  \/ \E k \in Keys : OnKeyDown(k)
  \/ Tick
  \/ \E v \in BOOLEAN : Frame(v)
  \/ OnResize

Spec == Init /\ [][Next]_vars

\* the pointer stream alone: presses, moves and releases
NextPointer ==
  \/ \E data \in Datasets : Load(data)
  \/ \E p \in PointerPoints : OnPointerMove(p)
  \/ \E p \in PointerPoints : PressAgain(p)
  \/ OnPointerUp

SpecPointer == Init /\ [][NextPointer]_vars

\* the background loader and the render loop
NextBg ==
  \/ \E src \in BgSources : SetBackground(src)
  \/ \E v \in BOOLEAN : Frame(v)
  \/ \E l \in loads : LoadResolved(l)
  \/ \E l \in loads : LoadRejected(l)
  \/ \E id \in rafResets : RafReset(id)
  \/ OnResize

SpecBg == Init /\ [][NextBg]_vars

\* a MultiPassRenderer and the pass lists of the two render paths
InitRenderer ==
  /\ AppInit
  /\ \E configs \in ConfigLists :
       /\ passesArray = NewPasses(configs, 1)
       /\ passMap = MapOfPasses(NewPasses(configs, 1))
       /\ gpuLive = DisposedBy(NewPasses(configs, 1), 1..Len(configs))
       /\ nextInst = Len(configs) + 1
  /\ gpuDoubleFreed = {}
  /\ boundInputs = {}
  /\ rebuilds = 0
  /\ ManagerInit
  /\ BatchIdle
  /\ PeelIdle
  /\ QualityIdle
  /\ LaterIdle

NextRenderer ==
  \/ \E configs \in ConfigLists : Construct(configs)
  \/ \E configs \in ConfigLists : RebuildPasses(configs)
  \/ RenderPasses
  \/ DisposeRenderer

SpecRenderer == InitRenderer /\ [][NextRenderer]_vars

\* a ShapeManager driven through its public methods
InitManager == AppInit /\ LabIdle

NextManager ==
  \/ \E data \in ShapeData : SmAddShape(data)
  \/ \E id \in StoreIds : SmRemoveShape(id)
  \/ \E id \in StoreIds, v \in BOOLEAN : SmSetShapeVisible(id, v)
  \/ \E id \in StoreIds, z \in {0, 1} : SmSetShapeZIndex(id, z)
  \/ \E id \in StoreIds, newId \in StoreIds : SmUpdateShapeId(id, newId)
  \/ \E id \in StoreIds : SmSelectShape(id)
  \/ \E id \in StoreIds : SmStartDragging(id)
  \/ SmDeserializeEmpty
  \/ \E p \in MousePoints, dpr \in Dprs : SmHitTest(p, dpr)

SpecManager == InitManager /\ [][NextManager]_vars

\* a store filled shape by shape and batched at any moment
InitBatch == AppInit /\ LabIdle

NextBatch ==
  \/ \E z \in {0, 1}, tint \in Tints, visible \in BOOLEAN : BatchAddShape(z, tint, visible)
  \/ \E cap \in 1..MaxCap : CallGetBatchedShapeData(cap)

SpecBatch == InitBatch /\ [][NextBatch]_vars

\* the peel passes of successive frames at one pixel
InitPeel ==
  /\ AppInit
  /\ RendererIdle /\ ManagerInit /\ BatchIdle /\ QualityIdle /\ LaterIdle
  /\ peelFragments \in SUBSET PeelShapes
  /\ peelIndex = 0
  /\ peeled = << >>

NextPeel ==
  \/ RunPeel
  \/ \E frags \in SUBSET PeelShapes : NextPeelFrame(frags)

SpecPeel == InitPeel /\ [][NextPeel]_vars

\* the monitoring over the frames of a session; the mode is a setting of the
\* declared type, which the component initialises to "auto"
InitQuality ==
  /\ AppInit
  /\ RendererIdle /\ ManagerInit /\ BatchIdle /\ PeelIdle /\ LaterIdle
  /\ performanceMode \in PerformanceModes
  /\ frameTimeHistory = << >>
  /\ adaptiveQuality = InitialQuality
  /\ rateChanges = 0

NextQuality == \E frameTime \in FrameTimes : MonitorFrame(frameTime)

SpecQuality == InitQuality /\ [][NextQuality]_vars

\* a camera of either viewport fitted to node lists
InitFit ==
  /\ AppInit
  /\ RendererIdle /\ ManagerInit /\ BatchIdle /\ PeelIdle /\ QualityIdle /\ SminIdle /\ UniIdle
  /\ fitViewport \in FitViewports
  /\ fitNodes = << >>
  /\ fitPadding = 0
  /\ fitCenter2 = [x |-> 0, y |-> 0]
  /\ fitZoom = [num |-> 1, den |-> 1]

NextFit ==
  \E nodes \in SeqsUpTo(FitNodeSet, MaxNodes), padding \in FitPaddings :
    FitToView(nodes, padding)

SpecFit == InitFit /\ [][NextFit]_vars

\* evaluations of smin over distances and merge ratios
InitSmin ==
  /\ AppInit
  /\ RendererIdle /\ ManagerInit /\ BatchIdle /\ PeelIdle /\ QualityIdle /\ FitIdle
  /\ SminIdle /\ UniIdle

NextSmin ==
  \E a \in -MaxDist..MaxDist, b \in -MaxDist..MaxDist, k \in 0..MaxK : Smin(a, b, k)

SpecSmin == InitSmin /\ [][NextSmin]_vars

\* the shape uniforms over store sizes and caps
NextUni ==
  \/ UniAddShape
  \/ \E c \in Caps : UniSetCap(c)
  \/ UniRender

SpecUni == Init /\ [][NextUni]_vars

\* ================================================================ properties
HasHover == HasShape(shapes, HoverId)
HoverCount == Cardinality({i \in 1..Len(shapes) : shapes[i].id = HoverId})
NonHoverIds == {shapes[i].id : i \in {j \in 1..Len(shapes) : shapes[j].id # HoverId}}
LingerPending == hoverLeaveTimer \in TimerIds(timers)
Idle == draggingShapeId = Null /\ ~isPanning

\* a pointer-move at p that the handler takes as the start of a hover on a
\* shape other than the recorded parent
HoverEnterAt(p) ==
  /\ Idle
  /\ PointerHit(p) # Null
  /\ PointerHit(p) # HoverId
  /\ PointerHit(p) # hoveredShapeId
  /\ OnPointerMove(p)

\* C1: a hover-enter on a shape, from idle or straight from another parent,
\* leaves exactly one shape with the reserved id "hover_shape" in the store,
\* recorded as the child of the shape entered and carrying that shape's
\* zIndex; the store never holds two shapes with the reserved id.
C1_OneBubblePerHover ==
  /\ [](HoverCount <= 1)
  /\ [][\A p \in PointerPoints :
          HoverEnterAt(p) =>
            /\ HoverCount' = 1
            /\ hoveredShapeId' = PointerHit(p)
            /\ hoverShapeId' = HoverId
            /\ HasShape(shapes', hoveredShapeId')
            /\ GetShape(shapes', HoverId).zIndex = GetShape(shapes', hoveredShapeId').zIndex]_vars

\* the pointer went from a straight to b while the two sat on different layers
C1_Witness ==
  /\ ev = "switch"
  /\ hoveredShapeId = "b"
  /\ HoverCount = 1
  /\ GetShape(shapes, HoverId).zIndex = GetShape(shapes, "b").zIndex
  /\ GetShape(shapes, "b").zIndex # GetShape(shapes, "a").zIndex

\* a pointer-move at p handled by the drag branch
DragMoveAt(p) == draggingShapeId # Null /\ OnPointerMove(p)

\* shape i of the store sits where the snapshot entry g plus the drag delta puts it
MovedTo(st, i, g, d) == st[i].x = g.x + d.x /\ st[i].y = g.y + d.y
SamePosition(st1, st2, i) == st1[i].x = st2[i].x /\ st1[i].y = st2[i].y

\* C2 as stated: while dragging a shape with zIndex Z, every pointer-move
\* puts every currently visible shape whose zIndex is Z at its pointer-down
\* position plus the world delta, and moves no shape whose zIndex differs
\* from Z.
C2_CurrentLayerMoves ==
  [][\A p \in PointerPoints :
       (DragMoveAt(p) /\ HasShape(shapes, draggingShapeId)) =>
         LET Z == GetShape(shapes, draggingShapeId).zIndex
             d == DragDelta(camera, dragStartPos, p)
         IN \A i \in 1..Len(shapes) :
              /\ (shapes[i].visible /\ shapes[i].zIndex = Z) =>
                   \E g \in draggingGroupShapes : g.id = shapes[i].id /\ MovedTo(shapes', i, g, d)
              /\ (shapes[i].zIndex # Z) => SamePosition(shapes', shapes, i)]_vars

\* C2: the drag group is fixed at pointer-down as every shape then sharing
\* the pressed shape's zIndex; every pointer-move while dragging puts each
\* shape of that group still in the store at its pointer-down position plus
\* the world delta and changes the position of no other shape.
C2_GroupFixedAtPointerDown ==
  /\ [][\A p \in PointerPoints :
          (OnPointerDown(p) /\ draggingShapeId = Null /\ draggingShapeId' # Null) =>
            /\ draggingShapeId' = PointerHit(p)
            /\ \A i \in 1..Len(shapes) :
                 (shapes[i].zIndex = GetShape(shapes, PointerHit(p)).zIndex)
                   <=> (\E g \in draggingGroupShapes' :
                          g.id = shapes[i].id /\ g.x = shapes[i].x /\ g.y = shapes[i].y)]_vars
  /\ [][\A p \in PointerPoints :
          DragMoveAt(p) =>
            LET d == DragDelta(camera, dragStartPos, p)
            IN /\ Len(shapes') = Len(shapes)
               /\ \A i \in 1..Len(shapes) :
                    IF \E g \in draggingGroupShapes : g.id = shapes[i].id
                    THEN \A g \in draggingGroupShapes :
                           g.id = shapes[i].id => MovedTo(shapes', i, g, d)
                    ELSE SamePosition(shapes', shapes, i)]_vars

\* a is being dragged and has moved off its pointer-down position together
\* with the bubble, while b, on another layer, stays outside the group
C2_Witness ==
  /\ draggingShapeId = "a"
  /\ \E g \in draggingGroupShapes : g.id = HoverId
  /\ \E g \in draggingGroupShapes :
       g.id = "a" /\ HasShape(shapes, "a") /\ GetShape(shapes, "a").x # g.x
  /\ ~(\E g \in draggingGroupShapes : g.id = "b")
  /\ HasShape(shapes, "b")

\* the linger window: the pointer has left parent and bubble, has not been
\* seen over a shape since, and less than the delay has passed
InLingerWindow == leftElapsed # -1 /\ leftElapsed < HoverLeaveDelay

LingerCleared == \A t \in timers : t.id = hoverLeaveTimer => t \notin timers'

\* C4: the linger timer is cancellable: a pointer-move that finds the pointer
\* over a shape (the parent, another shape or the bubble) before the delay
\* has elapsed, and a teardown of the component, clear the pending timer, so
\* that its callback never afterwards removes a bubble or resets the hover
\* state.
C4_ReentryOrTeardownCancelsLinger ==
  [][/\ \A p \in PointerPoints :
          (OnPointerMove(p) /\ LingerPending /\ PointerHit(p) # Null) => LingerCleared
     /\ (OnResize /\ LingerPending) => LingerCleared]_vars

\* the linger timer is pending and due at this instant
LingerDue == \E t \in timers : t.id = hoverLeaveTimer /\ t.remaining = 0

\* a pointer-move at p over empty space while a parent is recorded
LingerMoveAt(p) ==
  /\ Idle
  /\ PointerHit(p) = Null
  /\ hoveredShapeId # Null
  /\ OnPointerMove(p)

DragStarted(id, p) ==
  /\ draggingShapeId' = id
  /\ dragStartPos' = p
  /\ draggingGroupShapes' =
       {[id |-> shapes[i].id, x |-> shapes[i].x, y |-> shapes[i].y] :
          i \in {j \in 1..Len(shapes) : shapes[j].zIndex = GetShape(shapes, id).zIndex}}

PointerIdle ==
  /\ draggingShapeId = Null
  /\ draggingGroupShapes = {}
  /\ ~isPanning
  /\ lastPointerPos = << >>

\* C6 as stated: a pointer-down on a shape puts the controller in dragging
\* with a snapshot of every shape sharing that shape's zIndex, a pointer-down
\* on empty space puts it in panning, and a pointer-up returns it to idle
\* with the snapshots cleared.
C6_DownOnAnyShapeDrags ==
  /\ [][\A p \in PointerPoints :
          OnPointerDown(p) =>
            IF PointerHit(p) # Null THEN DragStarted(PointerHit(p), p) ELSE isPanning']_vars
  /\ [][OnPointerUp => PointerIdle']_vars

\* C6: a pointer-down on a shape other than the bubble of the recorded parent
\* puts the controller in dragging with a snapshot of every shape sharing
\* that shape's zIndex; a pointer-down on that bubble changes nothing of the
\* drag and pan state; a pointer-down on empty space puts the controller in
\* panning; a pointer-up returns it to idle with the snapshots cleared.
C6_DownOffBubbleDrags ==
  /\ [][\A p \in PointerPoints :
          OnPointerDown(p) =>
            IF PointerHit(p) = HoverId /\ hoveredShapeId # Null
            THEN UNCHANGED dragVars
            ELSE IF PointerHit(p) # Null
            THEN DragStarted(PointerHit(p), p) /\ UNCHANGED <<isPanning, lastPointerPos>>
            ELSE /\ isPanning' /\ lastPointerPos' = <<p>> /\ dragStartPos' = p
                 /\ UNCHANGED <<draggingShapeId, draggingGroupShapes>>]_vars
  /\ [][OnPointerUp => PointerIdle']_vars

\* a press on a has been released again: the controller is idle, the
\* snapshot cleared, the press position still recorded
C6_Witness ==
  /\ PointerIdle
  /\ downs = 1
  /\ dragStartPos = [x |-> 250, y |-> 300]
  /\ HasHover

\* C7 as stated: the draggable flag gates interaction: no pointer-move of a
\* drag changes the position of a shape whose draggable flag is false, a
\* pointer-down on such a shape starts no drag, and the non-draggable hover
\* bubble is never moved by a group drag.
C7_DraggableGatesDrag ==
  /\ [][\A p \in PointerPoints :
          DragMoveAt(p) =>
            \A i \in 1..Len(shapes) :
              ~shapes[i].draggable => SamePosition(shapes', shapes, i)]_vars
  /\ [][\A p \in PointerPoints :
          (OnPointerDown(p) /\ PointerHit(p) # Null
             /\ ~GetShape(shapes, PointerHit(p)).draggable) =>
            UNCHANGED <<draggingShapeId, draggingGroupShapes>>]_vars

\* C7: the draggable flag gates the start of a drag only: a pointer-down on
\* a shape whose flag is false (the hover bubble) leaves the drag and pan
\* state as it was, so the shape being dragged is never a non-draggable one;
\* a group drag does move a non-draggable shape, but only as a member of the
\* pressed shape's zIndex group, to its pointer-down position plus the delta.
C7_DraggableGatesDragStart ==
  /\ [][\A p \in PointerPoints :
          (OnPointerDown(p) /\ PointerHit(p) # Null
             /\ ~GetShape(shapes, PointerHit(p)).draggable) =>
            UNCHANGED dragVars]_vars
  /\ []((draggingShapeId # Null /\ HasShape(shapes, draggingShapeId)) =>
          GetShape(shapes, draggingShapeId).draggable)
  /\ [][\A p \in PointerPoints :
          DragMoveAt(p) =>
            \A i \in 1..Len(shapes) :
              (~shapes[i].draggable /\ ~SamePosition(shapes', shapes, i)) =>
                \E g \in draggingGroupShapes :
                  /\ g.id = shapes[i].id
                  /\ MovedTo(shapes', i, g, DragDelta(camera, dragStartPos, p))]_vars

\* a is being dragged and the bubble, in its group, has left the place it
\* had at pointer-down
C7_Witness ==
  /\ draggingShapeId = "a"
  /\ HasHover
  /\ ~GetShape(shapes, HoverId).draggable
  /\ \E g \in draggingGroupShapes :
       g.id = HoverId /\ GetShape(shapes, HoverId).x # g.x

\* C8: no shape other than the hover bubble is destroyed except by a dataset
\* reload: the set of non-hover shapes in the store is the same before and
\* after every pointer, keyboard, timer, clock, resize (re-render) and frame
\* step, and changes only when a dataset load replaces the store.
C8_OnlyReloadChangesShapeSet ==
  [][(~\E data \in Datasets : Load(data)) => NonHoverIds' = NonHoverIds]_vars

\* a drag has moved a, the linger timer has removed a bubble, and both
\* dataset shapes are still in the store
C8_Witness ==
  /\ ev = "fired"
  /\ inputs >= 1
  /\ ~HasHover
  /\ NonHoverIds = {"a", "b"}
  /\ GetShape(shapes, "a").x # -150

C10_RebuildOnlyOnChange ==
  [][\A v \in BOOLEAN :
       (Frame(v) /\ BatchCount(AnimatedShapes, shapeTints) = BuiltFor(passes)) =>
         UNCHANGED <<passes, lastBatchCount>>]_vars

\* ---------------------------------------------------------------- C11
\* the passes of a list that write to the screen
ScreenPasses(ps) == {i \in 1..Len(ps) : ps[i].toScreen}

\* the canonical batched-alpha sequence, stated on the list itself
CanonicalPasses(ps) ==
  /\ Len(ps) >= 2
  /\ PassName(ps[1]) = "bgPass" /\ ps[1].inputs = {}
  /\ IF PassName(ps[2]) = "passthroughPass"
     THEN /\ Len(ps) = 2
          /\ ps[2].inputs = {[uniform |-> "u_prevPassTexture", from |-> "bgPass"]}
     ELSE \A i \in 2..Len(ps) :
            /\ PassName(ps[i]) = "alphaBatch_" \o ToString(i - 2)
            /\ ps[i].inputs = {[uniform |-> "u_bg", from |-> "bgPass"],
                               [uniform |-> "u_previousLayer", from |-> PassName(ps[i - 1])]}
  /\ ScreenPasses(ps) = {Len(ps)}

\* C11: the renderer's pass list is always the canonical sequence: bgPass,
\* then alphaBatch_0..n-1 each taking u_previousLayer from its predecessor
\* (bgPass for the first), or bgPass and passthroughPass when there is no
\* batch; exactly one pass, the last, writes to the screen.
C11_PassListCanonical == CanonicalPasses(passes)

\* a frame has rebuilt the graph for three batches (a, b and the visible bubble)
C11_Witness ==
  /\ Len(passes) = 4
  /\ lastBatchCount = <<3>>
  /\ passes[4].toScreen /\ ~passes[3].toScreen

\* ---------------------------------------------------------------- C12
\* every input of every pass names a pass declared earlier in the list
InputsNameEarlierPasses(arr) ==
  \A i \in 1..Len(arr) : \A e \in arr[i].config.inputs :
    \E j \in 1..(i - 1) : PassName(arr[j].config) = e.from

\* C12: in every pass list handed to the renderer each name in a pass's
\* inputs map is the name of a pass declared earlier in that list, and at
\* render time every declared input is bound to an upstream pass's output
\* texture.
C12_InputsResolveUpstream ==
  /\ InputsNameEarlierPasses(passesArray)
  /\ \A b \in boundInputs : b.texture \notin {"undefined", "null"}

\* ---------------------------------------------------------------- C13
\* C13: every GPU resource that was created is released exactly once: no
\* resource is handed to a delete call twice, and no texture is dropped
\* (overwritten in the state, or discarded with a stale load) without
\* having been deleted.
C13_ReleasedExactlyOnce ==
  /\ gpuDoubleFreed = {}
  /\ ~textureLeaked

\* ---------------------------------------------------------------- C14
\* the entries of the store that are visible and whose box contains the point
HitCandidates(m, mousePos, dpr) ==
  {i \in 1..Len(m) : m[i].shape.visible /\ HitBox(m[i].shape, mousePos, dpr)}

\* r is the id of a topmost candidate, or null when there is none
TopmostWins(m, r, mousePos, dpr) ==
  LET cand == HitCandidates(m, mousePos, dpr)
  IN IF cand = {} THEN r = Null
     ELSE \E i \in cand :
            /\ m[i].shape.id = r
            /\ \A j \in cand : m[j].shape.zIndex <= m[i].shape.zIndex

\* C14: a hit test returns the id of a visible shape containing the point
\* that has the highest zIndex among the visible shapes containing it, and
\* null when no visible shape contains the point.
C14_HitTestTopmostWins ==
  [][\A p \in MousePoints, dpr \in Dprs :
       SmHitTest(p, dpr) => TopmostWins(smShapes, smResult', p, dpr)]_vars

\* a hit test has just answered for a point in the overlap of two visible
\* shapes on different layers, with the id of the upper one
C14_Witness ==
  /\ smQuery # << >>
  /\ \E i, j \in HitCandidates(smShapes, smQuery[1], smQuery[2]) :
       /\ smShapes[i].shape.zIndex < smShapes[j].shape.zIndex
       /\ smResult = smShapes[j].shape.id
       /\ smResult # smShapes[i].shape.id

\* ---------------------------------------------------------------- C15
BatchPositions == UNION {{<<b, k>> : k \in 1..Len(batches[b].shapes)} : b \in 1..Len(batches)}

VisibleIds == {batchStore[i].id : i \in {j \in 1..Len(batchStore) : batchStore[j].visible}}

ShapeOfId(id) == batchStore[CHOOSE i \in 1..Len(batchStore) : batchStore[i].id = id]

\* C15: the batches of a call with cap C partition the visible shapes (each
\* visible shape sits at exactly one place of exactly one batch and nothing
\* else does, so the sizes sum to N), the shapes of a batch all carry the
\* batch's (zIndex, tint) key, no batch holds more than C shapes, and the
\* list is non-decreasing in zIndex.
C15_BatchingCorrect ==
  batchCap > 0 =>
    /\ \A id \in VisibleIds :
         Cardinality({p \in BatchPositions : batches[p[1]].shapes[p[2]] = id}) = 1
    /\ \A p \in BatchPositions : batches[p[1]].shapes[p[2]] \in VisibleIds
    /\ Cardinality(BatchPositions) = Cardinality(VisibleIds)
    /\ \A p \in BatchPositions :
         KeyOf(batchTints, ShapeOfId(batches[p[1]].shapes[p[2]]))
           = <<batches[p[1]].zIndex, batches[p[1]].tint>>
    /\ \A b \in 1..Len(batches) : Len(batches[b].shapes) <= batchCap
    /\ \A b \in 1..(Len(batches) - 1) : batches[b].zIndex <= batches[b + 1].zIndex

\* a store whose first shape lies above a later one has been batched with a
\* cap that one of its groups exceeds: two batches share a key
C15_Witness ==
  /\ batchCap > 0
  /\ \E b, c \in 1..Len(batches) :
       b # c /\ batches[b].zIndex = batches[c].zIndex /\ batches[b].tint = batches[c].tint
  /\ \E i, j \in 1..Len(batchStore) :
       i < j /\ batchStore[i].visible /\ batchStore[j].visible
             /\ batchStore[i].zIndex > batchStore[j].zIndex

\* ---------------------------------------------------------------- C16
\* C16: after any sequence of add, update and remove calls no two records of
\* the store carry the same id, and every record is stored under its own id.
C16_IdsUnique ==
  /\ \A i \in 1..Len(smShapes) : smShapes[i].key = smShapes[i].shape.id
  /\ \A i, j \in 1..Len(smShapes) :
       smShapes[i].shape.id = smShapes[j].shape.id => i = j

\* ---------------------------------------------------------------- C17
VisibleLayers == {f.zIndex : f \in {g \in peelFragments : g.visible}}

LowestOf(S) == CHOOSE z \in S : \A y \in S : z <= y

\* C17: peel 0 selects the lowest visible zIndex at the pixel (zIndex 0
\* included), peel i the lowest one strictly deeper than the layer peel i-1
\* recorded, a peel with nothing deeper left selects nothing; the selected
\* layers are strictly increasing, so no layer is peeled twice.
C17_PeelsStrictlyDeeper ==
  /\ Len(peeled) >= 1 =>
       peeled[1] = IF VisibleLayers = {} THEN -1 ELSE LowestOf(VisibleLayers)
  /\ \A i \in 2..Len(peeled) :
       LET deeper == {z \in VisibleLayers : z > peeled[i - 1]}
       IN peeled[i] = IF peeled[i - 1] = -1 \/ deeper = {} THEN -1 ELSE LowestOf(deeper)
  /\ \A i, j \in 1..Len(peeled) :
       (i < j /\ peeled[i] # -1 /\ peeled[j] # -1) => peeled[i] < peeled[j]

MoveOverBubble(p) ==
  /\ hoverShapeId # Null
  /\ PointerHit(p) = hoverShapeId
  /\ OnPointerMove(p)

\* C19 as stated: a pointer-move with the pointer over the hover bubble
\* changes neither the store nor the recorded parent and bubble, arms no
\* removal and leaves none pending that would remove the bubble under the
\* pointer.
C19_MoveOverBubbleIsNoOp ==
  [][\A p \in PointerPoints :
       MoveOverBubble(p) =>
         /\ UNCHANGED <<shapes, hoveredShapeId, hoverShapeId>>
         /\ timers' = {}]_vars

\* C19: while neither dragging nor panning, a pointer-move with the pointer
\* over the hover bubble changes neither the store nor the recorded parent,
\* bubble and animation start, arms no removal and clears a pending linger
\* timer, so that no timer is left to remove the bubble.
C19_HoverMoveOverBubbleKeepsIt ==
  [][\A p \in PointerPoints :
       (MoveOverBubble(p) /\ draggingShapeId = Null /\ ~isPanning) =>
         /\ UNCHANGED <<shapes, selectedShapeId, hoveredShapeId, hoverShapeId,
                        hoverAnimationStart>>
         /\ hoverLeaveTimer' = 0
         /\ timers' = {}]_vars

\* a pointer-move over the bubble has just kept it: the bubble is in the
\* store, the parent still recorded and no linger timer pending
C19_Witness ==
  /\ ev = "kept"
  /\ HasHover
  /\ hoveredShapeId # Null
  /\ leftElapsed = -1
  /\ timers = {}

\* ---------------------------------------------------------------- C20
\* the last step was an updateShape call (setShapeVisible, setShapeZIndex or
\* an update of the id field) on id
UpdateCall(id) ==
  \/ \E v \in BOOLEAN : SmSetShapeVisible(id, v)
  \/ \E z \in {0, 1} : SmSetShapeZIndex(id, z)
  \/ \E newId \in StoreIds : SmUpdateShapeId(id, newId)

\* C20 as stated: updating or removing an id the store does not hold returns
\* false and leaves the store, the selection and the dragging id unchanged.
C20_MissingIdChangesNothing ==
  [][\A id \in StoreIds :
       (~SmHas(smShapes, id) /\ (SmRemoveShape(id) \/ UpdateCall(id))) =>
         /\ smResult' = "false"
         /\ UNCHANGED <<smShapes, smSelected, smDragging>>]_vars

\* C20: updating or removing an id the store does not hold returns false
\* and leaves the store unchanged; updateShape leaves the selection and the
\* dragging id unchanged too, removeShape resets selectedShapeId and
\* draggingShapeId to null when they equal that id and leaves them unchanged
\* otherwise.
C20_MissingIdReturnsFalse ==
  [][\A id \in StoreIds :
       ~SmHas(smShapes, id) =>
         /\ UpdateCall(id) =>
              /\ smResult' = "false"
              /\ UNCHANGED <<smShapes, smSelected, smDragging>>
         /\ SmRemoveShape(id) =>
              /\ smResult' = "false"
              /\ UNCHANGED smShapes
              /\ smSelected' = (IF smSelected = id THEN Null ELSE smSelected)
              /\ smDragging' = (IF smDragging = id THEN Null ELSE smDragging)]_vars

\* removeShape has just returned false for the bubble's id, which the store
\* does not hold while another shape is there
C20_Witness ==
  /\ smCall = "removeShape"
  /\ smResult = "false"
  /\ ~SmHas(smShapes, HoverId)
  /\ smShapes # << >>

\* ---------------------------------------------------------------- C21
\* C21: pressing digit n when the store has at least n shapes makes the
\* shape at index n - 1 the selected shape, the one a following '+' or '-'
\* adjusts and from which space cycles.
C21_DigitSelectsByIndex ==
  [][\A k \in DigitKeys :
       (OnKeyDown(k) /\ Len(shapes) >= DigitOf(k)) =>
         selectedShapeId' = shapes[DigitOf(k)].id]_vars

\* ---------------------------------------------------------------- C22
\* the padded bounding box of the last call's nodes, each node spanning its
\* width and height (300 and 100 when absent) around its position
FitBoxW ==
  MaxOfSet({fitNodes[i].x + NodeWidth(fitNodes[i]) \div 2 : i \in 1..Len(fitNodes)})
    - MinOfSet({fitNodes[i].x - NodeWidth(fitNodes[i]) \div 2 : i \in 1..Len(fitNodes)})
    + 2 * fitPadding

FitBoxH ==
  MaxOfSet({fitNodes[i].y + NodeHeight(fitNodes[i]) \div 2 : i \in 1..Len(fitNodes)})
    - MinOfSet({fitNodes[i].y - NodeHeight(fitNodes[i]) \div 2 : i \in 1..Len(fitNodes)})
    + 2 * fitPadding

\* C22: after fitToView on a non-empty node list the zoom is the least of
\* viewportW / boxW, viewportH / boxH and 1: it is at most each of the
\* three and equal to one of them, so it never exceeds 1.
C22_FitZoomClamped ==
  fitNodes # << >> =>
    LET zx == [num |-> fitViewport.w, den |-> FitBoxW]
        zy == [num |-> fitViewport.h, den |-> FitBoxH]
        one == [num |-> 1, den |-> 1]
    IN /\ QuotLeq(fitZoom, one)
       /\ QuotLeq(fitZoom, zx)
       /\ QuotLeq(fitZoom, zy)
       /\ fitZoom \in {zx, zy, one}

\* the camera has been fitted to a box smaller than the viewport in both
\* directions and stands at zoom 1
C22_Witness ==
  /\ fitNodes # << >>
  /\ FitBoxW > 0 /\ FitBoxW < fitViewport.w
  /\ FitBoxH > 0 /\ FitBoxH < fitViewport.h
  /\ fitZoom = [num |-> 1, den |-> 1]

\* ---------------------------------------------------------------- C23
\* the value of the last evaluation is a number not above q
SminAtMost(q) == ~sminResult.nan /\ sminResult.num <= q * sminResult.den

SminEquals(q) == ~sminResult.nan /\ sminResult.num = q * sminResult.den

\* C23: for any a, b and k >= 0, smin(a, b, k) <= min(a, b), and
\* smin(a, b, 0) = min(a, b).
C23_SminBelowMinFromZero ==
  /\ SminAtMost(Min2(sminA, sminB))
  /\ sminK = 0 => SminEquals(Min2(sminA, sminB))

\* ---------------------------------------------------------------- C24
\* C24: the hover bookkeeping matches the store: hoverShapeId is set exactly
\* when the store holds "hover_shape", and when it is set hoveredShapeId is
\* set too and names a shape of the store.
C24_HoverBookkeepingMatchesStore ==
  /\ hoverShapeId # Null <=> HasShape(shapes, HoverId)
  /\ hoverShapeId # Null =>
       /\ hoveredShapeId # Null
       /\ HasShape(shapes, hoveredShapeId)

\* ---------------------------------------------------------------- C25
\* C25: the controller is never dragging and panning at once, also after a
\* second pointer-down that arrives without a pointer-up in between, and the
\* drag snapshot is non-empty only while dragging.
C25_DragPanExclusive ==
  /\ ~(draggingShapeId # Null /\ isPanning)
  /\ draggingGroupShapes # {} => draggingShapeId # Null

\* ---------------------------------------------------------------- C26
\* the original shapes of the store whose position or zIndex the step changes
OriginalsChanged ==
  {id \in {shapes[i].id : i \in 1..Len(shapes)} \ {HoverId} :
     /\ HasShape(shapes', id)
     /\ \/ GetShape(shapes', id).x # GetShape(shapes, id).x
        \/ GetShape(shapes', id).y # GetShape(shapes, id).y
        \/ GetShape(shapes', id).zIndex # GetShape(shapes, id).zIndex}

\* C26: the position and zIndex of an original shape change only through a
\* drag or a keyboard zIndex adjustment; a resize, a re-render, a controls
\* change or a frame never alters or resets them.
C26_OnlyDragAndKeysMoveOriginals ==
  [][OriginalsChanged # {} =>
       \/ \E p \in PointerPoints : draggingShapeId # Null /\ OnPointerMove(p)
       \/ \E k \in {"+", "-"} : OnKeyDown(k)]_vars

\* ---------------------------------------------------------------- C27
\* the bubble and the parent it belongs to are both in the store
BubbleWithParent ==
  /\ HasShape(shapes, HoverId)
  /\ hoveredShapeId # Null
  /\ HasShape(shapes, hoveredShapeId)

\* C27: on every frame drawn while the bubble exists, the bubble's zIndex is
\* its parent's current zIndex, also once the animation has finished and
\* after the parent's zIndex was changed with the + / - keys.
C27_BubbleOnParentLayer ==
  [][(\E v \in BOOLEAN : Frame(v)) =>
       (BubbleWithParent' =>
          GetShape(shapes', HoverId).zIndex = GetShape(shapes', hoveredShapeId).zIndex)]_vars

\* ---------------------------------------------------------------- C28
HasPassthrough(ps) == \E i \in 1..Len(ps) : PassName(ps[i]) = "passthroughPass"

\* C28: at every render call of the batched-alpha path the pass graph matches
\* the frame's batch list: one alphaBatch pass per batch, and the
\* passthroughPass exactly when there is no batch; also after a dataset
\* reload or a re-creation of the renderer.
C28_PassGraphMatchesBatches ==
  [][(\E v \in BOOLEAN : Frame(v)) =>
       /\ BuiltFor(passes') = BatchCount(shapes', shapeTints')
       /\ HasPassthrough(passes') <=> BatchCount(shapes', shapeTints') = 0]_vars

\* ---------------------------------------------------------------- C29
\* the held texture shows the background currently desired: the image loaded
\* from that URL, or the video texture holding a picture of that video
TextureIsCurrent ==
  /\ bgTextureUrl # Null
  /\ bgTexture # Null
  /\ \/ bgTextureType = "image" /\ bgTexture = bgTextureUrl
     \/ bgTextureType = "video" /\ bgTexture = "empty" /\ bgTextureRatio = bgTextureUrl

\* C29: whenever the ready flag is true on a rendered frame, a texture exists
\* and was loaded for the currently desired URL; and the deferred reset never
\* overwrites the ready = true of a completed load of the current URL.
C29_ReadyMeansCurrentTexture ==
  /\ [][(\E v \in BOOLEAN : Frame(v)) => (bgTextureReady' => TextureIsCurrent')]_vars
  /\ [][\A id \in rafResets :
          RafReset(id) => ~(bgTextureReady /\ TextureIsCurrent)]_vars

\* ---------------------------------------------------------------- C30
\* C30: on every frame and for every pass, u_shapeCount exceeds neither the
\* fixed capacity of the pass shader's uniform arrays nor the length of the
\* shape arrays supplied with it, for every allowed per-batch cap.
C30_ShapeCountWithinArrays ==
  /\ uniBg.count <= BgShaderCapacity
  /\ uniBg.count <= uniBg.length
  /\ \A i \in 1..Len(uniBatches) : uniBatches[i].count <= uniBatches[i].length

====
